---- MODULE Spec2Model ----
(***************************************************************************)
(* Model of the lexica domain/command layer: the entry store, the score    *)
(* engine, the weighted test selection and the application commands that   *)
(* parse raw input and fold the store operations into a new AppState; of   *)
(* the interactive test session; and of the CLI handlers that load, change *)
(* and save the dictionary file.                                           *)
(*                                                                         *)
(* Strings are sequences of one-character strings, so that trimming is     *)
(* computed and not assumed.  An optional value (a parameter that may be   *)
(* undefined, a nullable result) is a sequence of length at most one.      *)
(***************************************************************************)
EXTENDS Integers, Sequences, FiniteSets, TLC

VARIABLES state, last, invocations, workspace

vars == <<state, last, invocations, workspace>>

(***************************************************************************)
(* Bounds of the exploration.                                              *)
(***************************************************************************)
MaxSize == 3
MaxArgs == 2
RngDenominator == 4
MaxCount == 3

\* The arguments after the command word number at most MaxArgv.
MaxArgv == 3

(***************************************************************************)
(* Input alphabets.                                                        *)
(***************************************************************************)
Whitespace == {" "}

RawTerms == {<<" ">>, <<"a">>, <<" ", "b", " ">>}

RawMeanings == {<<>>, <<"m">>, <<" ", "n">>}

RawExamples == {<<" ">>, <<"e">>, <<"f", " ">>}

Terms == {<<"a">>, <<"b">>}

Meanings == {<<"m">>, <<"n">>}

Examples == {<<"e">>, <<"f">>}

SeqsUpTo(S, n) == UNION {[1..k -> S] : k \in 0..n}

RawMeaningLists == SeqsUpTo(RawMeanings, MaxArgs)

ExampleLists == SeqsUpTo(Examples, MaxArgs)

Undefined == <<>>

Some(x) == <<x>>

(***************************************************************************)
(* result.ts                                                               *)
(***************************************************************************)
succeed(value) == [type |-> "Success", value |-> value]

failInvalidInput == [type |-> "Failure", kind |-> "invalid-input"]

failNotFound == [type |-> "Failure", kind |-> "not-found"]

failAi == [type |-> "Failure", kind |-> "ai-failed"]

failFileIO == [type |-> "Failure", kind |-> "file-io"]

failConflict == [type |-> "Failure", kind |-> "conflict"]

isSuccess(result) == result.type = "Success"

isFailure(result) == result.type = "Failure"

(***************************************************************************)
(* score.ts                                                                *)
(***************************************************************************)
parseScore(value) ==
  IF value \in Nat THEN succeed(value) ELSE failInvalidInput

defaultScore == 0

incrementScore(score) == score + 1

\* decrementScore without the lower bound.
decrementScoreUnfloored(score) == score - 1

decrementScore(score) == IF 0 >= score - 1 THEN 0 ELSE score - 1

scoreToNumber(score) == score

(***************************************************************************)
(* entry.ts: parsing.  The schema trims, then requires length >= 1.        *)
(***************************************************************************)
RECURSIVE trimStart(_)
trimStart(s) ==
  IF s # <<>> /\ Head(s) \in Whitespace THEN trimStart(Tail(s)) ELSE s

RECURSIVE trimEnd(_)
trimEnd(s) ==
  IF s # <<>> /\ s[Len(s)] \in Whitespace
    THEN trimEnd(SubSeq(s, 1, Len(s) - 1))
    ELSE s

trim(s) == trimEnd(trimStart(s))

parseNonEmpty(value) ==
  LET output == trim(value)
  IN IF Len(output) < 1 THEN failInvalidInput ELSE succeed(output)

parseTerm(value) == parseNonEmpty(value)

parseMeaning(value) == parseNonEmpty(value)

parseExample(value) == parseNonEmpty(value)

\* parseMeanings without the minLength(1) on the array.
parseMeaningsAllowEmpty(values) ==
  IF \E i \in 1..Len(values) : isFailure(parseNonEmpty(values[i]))
    THEN failInvalidInput
    ELSE succeed([i \in 1..Len(values) |-> trim(values[i])])

parseMeanings(values) ==
  IF \/ \E i \in 1..Len(values) : isFailure(parseNonEmpty(values[i]))
     \/ Len(values) < 1
    THEN failInvalidInput
    ELSE succeed([i \in 1..Len(values) |-> trim(values[i])])

(***************************************************************************)
(* entry.ts: entries.  examples is optional: Undefined or Some(list).      *)
(***************************************************************************)
createEntry(term, meanings, examples, score) ==
  LET resolvedScore == IF score = Undefined THEN defaultScore ELSE score[1]
  IN [term |-> term, meanings |-> meanings, examples |-> examples,
      score |-> resolvedScore]

\* overwriteExamples that keeps the previous examples in front.
overwriteExamplesAppending(entry, examples) ==
  [entry EXCEPT !.examples =
     Some((IF entry.examples = Undefined THEN <<>> ELSE entry.examples[1])
          \o examples)]

overwriteExamples(entry, examples) ==
  [entry EXCEPT !.examples = Some(examples)]

appendExample(entry, example) ==
  [entry EXCEPT !.examples =
     Some((IF entry.examples = Undefined THEN <<>> ELSE entry.examples[1])
          \o <<example>>)]

\* overwriteScore that drops the entry's examples.
overwriteScoreDroppingExamples(entry, score) ==
  [entry EXCEPT !.score = score, !.examples = Undefined]

overwriteScore(entry, score) == [entry EXCEPT !.score = score]

\* entries.findIndex(...): the first index holding the term, 0 for "none" (-1).
findEntryIndex(entries, term) ==
  IF \E i \in 1..Len(entries) : entries[i].term = term
    THEN CHOOSE i \in 1..Len(entries) :
           /\ entries[i].term = term
           /\ \A j \in 1..(i - 1) : entries[j].term # term
    ELSE 0

\* upsertEntry that puts a new entry in front of the list.
upsertEntryPrepending(entries, term, meaning) ==
  LET index == findEntryIndex(entries, term)
  IN IF index = 0
       THEN LET entry == createEntry(term, <<meaning>>, Undefined, Undefined)
            IN succeed([entries |-> <<entry>> \o entries, entry |-> entry])
       ELSE LET existing == entries[index]
                updated == [existing EXCEPT
                              !.meanings = Append(existing.meanings, meaning)]
            IN succeed([entries |-> [entries EXCEPT ![index] = updated],
                        entry |-> updated])

\* upsertEntry without the lookup: every call appends a new entry.
upsertEntryAlwaysAppend(entries, term, meaning) ==
  LET entry == createEntry(term, <<meaning>>, Undefined, Undefined)
  IN succeed([entries |-> Append(entries, entry), entry |-> entry])

\* upsertEntry that skips a meaning the entry already has.
upsertEntryDedup(entries, term, meaning) ==
  LET index == findEntryIndex(entries, term)
  IN IF index = 0
       THEN LET entry == createEntry(term, <<meaning>>, Undefined, Undefined)
            IN succeed([entries |-> Append(entries, entry), entry |-> entry])
       ELSE LET existing == entries[index]
                updated == IF \E i \in 1..Len(existing.meanings) :
                                existing.meanings[i] = meaning
                             THEN existing
                             ELSE [existing EXCEPT
                                     !.meanings =
                                       Append(existing.meanings, meaning)]
            IN succeed([entries |-> [entries EXCEPT ![index] = updated],
                        entry |-> updated])

upsertEntry(entries, term, meaning) ==
  LET index == findEntryIndex(entries, term)
  IN IF index = 0
       THEN LET entry == createEntry(term, <<meaning>>, Undefined, Undefined)
            IN succeed([entries |-> Append(entries, entry), entry |-> entry])
       ELSE LET existing == entries[index]
                updated == [existing EXCEPT
                              !.meanings = Append(existing.meanings, meaning)]
            IN succeed([entries |-> [entries EXCEPT ![index] = updated],
                        entry |-> updated])

findEntry(entries, term) ==
  LET index == findEntryIndex(entries, term)
  IN IF index = 0 THEN failNotFound ELSE succeed(entries[index])

replaceEntry(entries, entry) ==
  LET index == findEntryIndex(entries, entry.term)
  IN IF index = 0
       THEN failNotFound
       ELSE succeed([entries |-> [entries EXCEPT ![index] = entry],
                     entry |-> entry])

\* deleteEntry without the existence check.
deleteEntryUnchecked(entries, term) ==
  succeed([entries |-> SelectSeq(entries, LAMBDA entry : entry.term # term)])

deleteEntry(entries, term) ==
  LET index == findEntryIndex(entries, term)
  IN IF index = 0
       THEN failNotFound
       ELSE succeed([entries |->
                       SelectSeq(entries, LAMBDA entry : entry.term # term)])

(***************************************************************************)
(* entry.ts: commands over an AppState {dictionary, entries}.              *)
(***************************************************************************)
commandResult(st, entries, entry) ==
  succeed([state |-> [st EXCEPT !.entries = entries],
           entry |-> entry,
           dictionaryName |-> st.dictionary.name])

\* The loop of addEntryMeanings: one upsertEntry per meaning, keeping the
\* last updated entry (Undefined while no meaning has been folded).
RECURSIVE foldUpsert(_, _, _, _)
foldUpsert(entries, entry, term, meanings) ==
  IF meanings = <<>>
    THEN succeed([entries |-> entries, entry |-> entry])
    ELSE LET updated == upsertEntry(entries, term, Head(meanings))
         IN IF isFailure(updated)
              THEN updated
              ELSE foldUpsert(updated.value.entries, Some(updated.value.entry),
                              term, Tail(meanings))

addEntryMeanings(st, term, meanings) ==
  LET folded == foldUpsert(st.entries, Undefined, term, meanings)
  IN IF isFailure(folded)
       THEN folded
       ELSE commandResult(st, folded.value.entries,
              IF folded.value.entry = Undefined
                THEN createEntry(term, meanings, Undefined, Undefined)
                ELSE folded.value.entry[1])

addEntry(st, term, meaning) == addEntryMeanings(st, term, <<meaning>>)

addEntryExample(st, term, example) ==
  LET currentEntry == findEntry(st.entries, term)
  IN IF isFailure(currentEntry)
       THEN currentEntry
       ELSE LET replaced == replaceEntry(st.entries,
                              appendExample(currentEntry.value, example))
            IN IF isFailure(replaced)
                 THEN replaced
                 ELSE commandResult(st, replaced.value.entries,
                                    replaced.value.entry)

removeResult(st, entries) ==
  succeed([state |-> [st EXCEPT !.entries = entries],
           dictionaryName |-> st.dictionary.name])

\* A sequence with its first occurrence of x left out.
RECURSIVE withoutFirst(_, _)
withoutFirst(seq, x) ==
  IF seq = <<>> THEN <<>>
  ELSE IF Head(seq) = x
    THEN Tail(seq)
    ELSE <<Head(seq)>> \o withoutFirst(Tail(seq), x)

\* removeEntry that takes out one occurrence of the meaning only.
removeEntryFirstOccurrence(st, term, meaning) ==
  IF meaning = Undefined
    THEN LET deleted == deleteEntry(st.entries, term)
         IN IF isFailure(deleted)
              THEN deleted
              ELSE removeResult(st, deleted.value.entries)
    ELSE
      LET currentEntry == findEntry(st.entries, term)
      IN IF isFailure(currentEntry)
           THEN currentEntry
           ELSE
             LET filtered == withoutFirst(currentEntry.value.meanings,
                                          meaning[1])
             IN IF Len(filtered) = Len(currentEntry.value.meanings)
                  THEN failNotFound
                  ELSE IF Len(filtered) = 0
                    THEN LET deleted == deleteEntry(st.entries, term)
                         IN IF isFailure(deleted)
                              THEN deleted
                              ELSE removeResult(st, deleted.value.entries)
                    ELSE LET replaced == replaceEntry(st.entries,
                               [currentEntry.value EXCEPT !.meanings = filtered])
                         IN IF isFailure(replaced)
                              THEN replaced
                              ELSE removeResult(st, replaced.value.entries)

\* removeEntry that stores the emptied entry instead of deleting it.
removeEntryKeepsEmptied(st, term, meaning) ==
  IF meaning = Undefined
    THEN LET deleted == deleteEntry(st.entries, term)
         IN IF isFailure(deleted)
              THEN deleted
              ELSE removeResult(st, deleted.value.entries)
    ELSE
      LET currentEntry == findEntry(st.entries, term)
      IN IF isFailure(currentEntry)
           THEN currentEntry
           ELSE
             LET filtered == SelectSeq(currentEntry.value.meanings,
                                       LAMBDA item : item # meaning[1])
             IN IF Len(filtered) = Len(currentEntry.value.meanings)
                  THEN failNotFound
                  ELSE LET replaced == replaceEntry(st.entries,
                             [currentEntry.value EXCEPT !.meanings = filtered])
                       IN IF isFailure(replaced)
                            THEN replaced
                            ELSE removeResult(st, replaced.value.entries)

\* meaning is optional: Undefined removes the whole entry.
removeEntry(st, term, meaning) ==
  IF meaning = Undefined
    THEN LET deleted == deleteEntry(st.entries, term)
         IN IF isFailure(deleted)
              THEN deleted
              ELSE removeResult(st, deleted.value.entries)
    ELSE
      LET currentEntry == findEntry(st.entries, term)
      IN IF isFailure(currentEntry)
           THEN currentEntry
           ELSE
             LET filtered == SelectSeq(currentEntry.value.meanings,
                                       LAMBDA item : item # meaning[1])
             IN IF Len(filtered) = Len(currentEntry.value.meanings)
                  THEN failNotFound
                  ELSE IF Len(filtered) = 0
                    THEN LET deleted == deleteEntry(st.entries, term)
                         IN IF isFailure(deleted)
                              THEN deleted
                              ELSE removeResult(st, deleted.value.entries)
                    ELSE LET replaced == replaceEntry(st.entries,
                               [currentEntry.value EXCEPT !.meanings = filtered])
                         IN IF isFailure(replaced)
                              THEN replaced
                              ELSE removeResult(st, replaced.value.entries)

\* replaceEntryInAppState that keeps the stored examples when none are given.
replaceEntryInAppStateKeepingExamples(st, term, meanings, examples) ==
  LET currentEntry == findEntry(st.entries, term)
  IN IF isFailure(currentEntry)
       THEN currentEntry
       ELSE LET entry == createEntry(term, meanings,
                           IF examples = Undefined
                             THEN currentEntry.value.examples
                             ELSE examples,
                           Some(currentEntry.value.score))
                replaced == replaceEntry(st.entries, entry)
            IN IF isFailure(replaced)
                 THEN replaced
                 ELSE commandResult(st, replaced.value.entries,
                                    replaced.value.entry)

\* replaceEntryInAppState that lets the score fall back to the default.
replaceEntryInAppStateResettingScore(st, term, meanings, examples) ==
  LET currentEntry == findEntry(st.entries, term)
  IN IF isFailure(currentEntry)
       THEN currentEntry
       ELSE LET entry == createEntry(term, meanings, examples, Undefined)
                replaced == replaceEntry(st.entries, entry)
            IN IF isFailure(replaced)
                 THEN replaced
                 ELSE commandResult(st, replaced.value.entries,
                                    replaced.value.entry)

\* examples is optional.
replaceEntryInAppState(st, term, meanings, examples) ==
  LET currentEntry == findEntry(st.entries, term)
  IN IF isFailure(currentEntry)
       THEN currentEntry
       ELSE LET entry == createEntry(term, meanings, examples,
                                     Some(currentEntry.value.score))
                replaced == replaceEntry(st.entries, entry)
            IN IF isFailure(replaced)
                 THEN replaced
                 ELSE commandResult(st, replaced.value.entries,
                                    replaced.value.entry)

(***************************************************************************)
(* commands.ts: generateExamples.  The generator collaborator is given by  *)
(* the Result it resolves to; generatorCalls lists the inputs it was       *)
(* called with, in order.                                                  *)
(***************************************************************************)
generatorInput(st, term, meaning) ==
  [dictionaryName |-> st.dictionary.name, language |-> st.dictionary.language,
   term |-> term, meaning |-> meaning]

\* generateExamples that calls the generator before it looks the term up.
generateExamplesEager(st, term, meaning, generator) ==
  LET currentEntry == findEntry(st.entries, term)
      generated == generator
      calls == <<generatorInput(st, term, meaning)>>
  IN IF isFailure(currentEntry)
       THEN [result |-> currentEntry, generatorCalls |-> calls]
       ELSE IF isFailure(generated)
         THEN [result |-> generated, generatorCalls |-> calls]
         ELSE LET replaced == replaceEntry(st.entries,
                    overwriteExamples(currentEntry.value, generated.value))
              IN [result |->
                    IF isFailure(replaced)
                      THEN replaced
                      ELSE commandResult(st, replaced.value.entries,
                                         replaced.value.entry),
                  generatorCalls |-> calls]

generateExamplesRun(st, term, meaning, generator) ==
  LET currentEntry == findEntry(st.entries, term)
  IN IF isFailure(currentEntry)
       THEN [result |-> currentEntry, generatorCalls |-> <<>>]
       ELSE LET generated == generator
                calls == <<generatorInput(st, term, meaning)>>
            IN IF isFailure(generated)
                 THEN [result |-> generated, generatorCalls |-> calls]
                 ELSE LET replaced == replaceEntry(st.entries,
                            overwriteExamples(currentEntry.value,
                                              generated.value))
                      IN [result |->
                            IF isFailure(replaced)
                              THEN replaced
                              ELSE commandResult(st, replaced.value.entries,
                                                 replaced.value.entry),
                          generatorCalls |-> calls]

generateExamples(st, term, meaning, generator) ==
  generateExamplesRun(st, term, meaning, generator).result

(***************************************************************************)
(* test-mode.ts: score updates.                                            *)
(***************************************************************************)
\* The callback nextScore is passed by name.
applyNextScore(nextScore, score) ==
  IF nextScore = "incrementScore"
    THEN incrementScore(score)
    ELSE decrementScore(score)

updateTestScore(st, term, nextScore) ==
  LET currentEntry == findEntry(st.entries, term)
  IN IF isFailure(currentEntry)
       THEN currentEntry
       ELSE LET replaced == replaceEntry(st.entries,
                  overwriteScore(currentEntry.value,
                    applyNextScore(nextScore, currentEntry.value.score)))
            IN IF isFailure(replaced)
                 THEN replaced
                 ELSE commandResult(st, replaced.value.entries,
                                    replaced.value.entry)

\* rememberEntry wired to the other score function.
rememberEntrySwapped(st, term) == updateTestScore(st, term, "decrementScore")

rememberEntry(st, term) == updateTestScore(st, term, "incrementScore")

forgetEntry(st, term) == updateTestScore(st, term, "decrementScore")

(***************************************************************************)
(* test-mode.ts: weighted selection.  A weight 1/(score+1) is held as the  *)
(* integer weightScale/(score+1), and an rng value r as the fraction       *)
(* rng.num/rng.den, so that pick <= cursor is decided exactly.             *)
(***************************************************************************)
RECURSIVE factorial(_)
factorial(n) == IF n <= 1 THEN 1 ELSE n * factorial(n - 1)

weightScale == factorial(MaxSize + 1)

\* A weight that ignores the score.
weightFlat(entry) == weightScale

weight(entry) == weightScale \div (scoreToNumber(entry.score) + 1)

fraction(num, den) == [num |-> num, den |-> den]

RngValues == {fraction(k, RngDenominator) : k \in 0..RngDenominator}

RECURSIVE totalWeight(_)
totalWeight(entries) ==
  IF entries = <<>> THEN 0
  ELSE weight(Head(entries)) + totalWeight(Tail(entries))

\* The for-loop of chooseWeightedEntry from position i with the running
\* cursor; chosen is returned when the loop ends without a break.
\* The loop with pick < cursor in place of pick <= cursor.
RECURSIVE walkWeightedStrict(_, _, _, _, _)
walkWeightedStrict(entries, i, cursor, rng, chosen) ==
  IF i > Len(entries)
    THEN chosen
    ELSE LET next == cursor + weight(entries[i])
         IN IF rng.num * totalWeight(entries) < next * rng.den
              THEN entries[i]
              ELSE walkWeightedStrict(entries, i + 1, next, rng, chosen)

RECURSIVE walkWeighted(_, _, _, _, _)
walkWeighted(entries, i, cursor, rng, chosen) ==
  IF i > Len(entries)
    THEN chosen
    ELSE LET next == cursor + weight(entries[i])
         IN IF rng.num * totalWeight(entries) <= next * rng.den
              THEN entries[i]
              ELSE walkWeighted(entries, i + 1, next, rng, chosen)

\* null is Undefined.
chooseWeightedEntry(entries, rng) ==
  IF Len(entries) = 0
    THEN Undefined
    ELSE Some(walkWeighted(entries, 1, 0, rng, entries[1]))

\* isEligible that ignores usedTerms.
meaningsIsEligibleAll(usedTerms, entry) == TRUE

meaningsIsEligible(usedTerms, entry) == entry.term \notin usedTerms

meaningsCreateSelection(entry) == Some([entry |-> entry])

\* selectMeaningTestEntry that reports exhaustion as a failure.
selectMeaningTestEntryFailing(st, usedTerms, rng) ==
  LET eligible == SelectSeq(st.entries,
                            LAMBDA entry : meaningsIsEligible(usedTerms, entry))
      chosen == chooseWeightedEntry(eligible, rng)
  IN IF chosen = Undefined
       THEN failNotFound
       ELSE succeed(meaningsCreateSelection(chosen[1]))

selectMeaningTestEntry(st, usedTerms, rng) ==
  LET eligible == SelectSeq(st.entries,
                            LAMBDA entry : meaningsIsEligible(usedTerms, entry))
      chosen == chooseWeightedEntry(eligible, rng)
  IN IF chosen = Undefined
       THEN succeed(Undefined)
       ELSE succeed(meaningsCreateSelection(chosen[1]))

\* entry.examples ?? []
examplesOrEmpty(entry) ==
  IF entry.examples = Undefined THEN <<>> ELSE entry.examples[1]

examplesIsEligible(usedExamples, entry) ==
  \E i \in 1..Len(examplesOrEmpty(entry)) :
    examplesOrEmpty(entry)[i] \notin usedExamples

\* Math.floor(rng() * length), as a position counted from 1.
floorIndex(rng, length) == ((rng.num * length) \div rng.den) + 1

\* createSelection that draws from all examples of the entry.
examplesCreateSelectionAll(usedExamples, rng, entry) ==
  LET examples == examplesOrEmpty(entry)
  IN IF Len(examples) = 0
       THEN Undefined
       ELSE LET index == floorIndex(rng, Len(examples))
            IN IF index > Len(examples) \/ examples[index] = <<>>
                 THEN Undefined
                 ELSE Some([entry |-> entry, example |-> examples[index]])

\* An index past the end reads undefined, and undefined and the empty
\* string both fail the test "if (!example)".
examplesCreateSelection(usedExamples, rng, entry) ==
  LET examples == SelectSeq(examplesOrEmpty(entry),
                            LAMBDA example : example \notin usedExamples)
  IN IF Len(examples) = 0
       THEN Undefined
       ELSE LET index == floorIndex(rng, Len(examples))
            IN IF index > Len(examples) \/ examples[index] = <<>>
                 THEN Undefined
                 ELSE Some([entry |-> entry, example |-> examples[index]])

\* rng is called twice: entryRng chooses the entry, exampleRng the example.
selectExampleTestEntry(st, usedExamples, entryRng, exampleRng) ==
  LET eligible == SelectSeq(st.entries,
                            LAMBDA entry : examplesIsEligible(usedExamples, entry))
      chosen == chooseWeightedEntry(eligible, entryRng)
  IN IF chosen = Undefined
       THEN succeed(Undefined)
       ELSE succeed(examplesCreateSelection(usedExamples, exampleRng, chosen[1]))

(***************************************************************************)
(* application.ts: raw strings in, parsed values to the core commands.     *)
(***************************************************************************)
\* addEntryMeanings that leaves out the meanings that do not parse.
appAddEntryMeaningsSkippingInvalid(st, termInput, meaningsInput) ==
  LET term == parseTerm(termInput)
      meanings == parseMeanings(SelectSeq(meaningsInput,
                    LAMBDA value : isSuccess(parseMeaning(value))))
  IN IF isFailure(term) THEN term
     ELSE IF isFailure(meanings) THEN meanings
     ELSE addEntryMeanings(st, term.value, meanings.value)

appAddEntryMeanings(st, termInput, meaningsInput) ==
  LET term == parseTerm(termInput)
      meanings == parseMeanings(meaningsInput)
  IN IF isFailure(term) THEN term
     ELSE IF isFailure(meanings) THEN meanings
     ELSE addEntryMeanings(st, term.value, meanings.value)

appAddEntryExample(st, termInput, exampleInput) ==
  LET term == parseTerm(termInput)
      example == parseExample(exampleInput)
  IN IF isFailure(term) THEN term
     ELSE IF isFailure(example) THEN example
     ELSE addEntryExample(st, term.value, example.value)

\* meaningInput is optional.
appRemoveEntry(st, termInput, meaningInput) ==
  LET term == parseTerm(termInput)
  IN IF isFailure(term) THEN term
     ELSE IF meaningInput = Undefined
       THEN removeEntry(st, term.value, Undefined)
       ELSE LET meaning == parseMeaning(meaningInput[1])
            IN IF isFailure(meaning) THEN meaning
               ELSE removeEntry(st, term.value, Some(meaning.value))

appReplaceEntry(st, termInput, meaningsInput, examples) ==
  LET term == parseTerm(termInput)
      meanings == parseMeanings(meaningsInput)
  IN IF isFailure(term) THEN term
     ELSE IF isFailure(meanings) THEN meanings
     ELSE replaceEntryInAppState(st, term.value, meanings.value, examples)

appGenerateExamples(st, termInput, meaningInput, generator) ==
  LET term == parseTerm(termInput)
      meaning == parseMeaning(meaningInput)
  IN IF isFailure(term) THEN term
     ELSE IF isFailure(meaning) THEN meaning
     ELSE generateExamples(st, term.value, meaning.value, generator)

appRememberEntry(st, termInput) ==
  LET term == parseTerm(termInput)
  IN IF isFailure(term) THEN term ELSE rememberEntry(st, term.value)

appForgetEntry(st, termInput) ==
  LET term == parseTerm(termInput)
  IN IF isFailure(term) THEN term ELSE forgetEntry(st, term.value)

(***************************************************************************)
(* cli-test-session.ts: runTestSession.  A session is the record of the    *)
(* function's locals; pc is "loop" at the head of the while loop, "ask"    *)
(* while the remember prompt awaits an answer, "returned" after return.    *)
(* presented lists the selections written to the output, in order.         *)
(***************************************************************************)
TestModes == {"meanings", "examples"}

\* Math.random() yields r with 0 <= r < 1.
RandomValues == {rng \in RngValues : rng.num < rng.den}

sessionReturn(session, result) ==
  [session EXCEPT !.pc = "returned", !.closed = TRUE, !.result = Some(result)]

\* The locals before the loop; an unknown mode returns at once.
runTestSessionStart(st, mode, count) ==
  LET session == [mode |-> mode, count |-> count, usedTerms |-> {},
                  usedExamples |-> {}, asked |-> 0, testState |-> st,
                  pc |-> "loop", selection |-> Undefined, presented |-> <<>>,
                  closed |-> FALSE, result |-> Undefined]
  IN IF mode \notin TestModes
       THEN [session EXCEPT !.pc = "returned",
                            !.result = Some(failInvalidInput)]
       ELSE session

\* modeStrategy.select()
sessionSelect(session, entryRng, exampleRng) ==
  IF session.mode = "meanings"
    THEN selectMeaningTestEntry(session.testState, session.usedTerms, entryRng)
    ELSE selectExampleTestEntry(session.testState, session.usedExamples,
                                entryRng, exampleRng)

\* modeStrategy.reveal(selection): false for an examples selection that
\* has no example.
sessionReveal(session, selection) ==
  session.mode = "examples" => "example" \in DOMAIN selection

\* The loop with asked <= count as its condition.
runTestSessionLoopOneMore(session, entryRng, exampleRng) ==
  LET finished == succeed([state |-> session.testState,
                           asked |-> session.asked])
  IN IF ~(session.asked <= session.count)
       THEN sessionReturn(session, finished)
       ELSE LET selection == sessionSelect(session, entryRng, exampleRng)
            IN IF isFailure(selection)
                 THEN sessionReturn(session, selection)
                 ELSE IF selection.value = Undefined
                   THEN sessionReturn(session, finished)
                   ELSE [session EXCEPT
                           !.presented = Append(@, selection.value[1]),
                           !.pc = "ask",
                           !.selection = selection.value]

\* From the loop condition to the first remember prompt, or to the return.
runTestSessionLoop(session, entryRng, exampleRng) ==
  LET finished == succeed([state |-> session.testState,
                           asked |-> session.asked])
  IN IF ~(session.asked < session.count)
       THEN sessionReturn(session, finished)
       ELSE LET selection == sessionSelect(session, entryRng, exampleRng)
            IN IF isFailure(selection)
                 THEN sessionReturn(session, selection)
                 ELSE IF selection.value = Undefined
                   THEN sessionReturn(session, finished)
                   ELSE LET presented == [session EXCEPT
                              !.presented = Append(@, selection.value[1])]
                        IN IF ~sessionReveal(session, selection.value[1])
                             THEN sessionReturn(presented, finished)
                             ELSE [presented EXCEPT
                                     !.pc = "ask",
                                     !.selection = selection.value]

\* track that records the term in either mode.
sessionTrackTerm(session, selection) ==
  [session EXCEPT !.usedTerms = @ \cup {selection.entry.term}]

\* modeStrategy.track(selection)
sessionTrack(session, selection) ==
  IF session.mode = "meanings"
    THEN [session EXCEPT !.usedTerms = @ \cup {selection.entry.term}]
    ELSE [session EXCEPT !.usedExamples = @ \cup {selection.example}]

\* runTestSessionAnswer that takes every answer but y as n.
runTestSessionAnswerLenient(session, answer) ==
  LET entry == session.selection[1].entry
      updated == IF answer = "y"
                   THEN appRememberEntry(session.testState, entry.term)
                   ELSE appForgetEntry(session.testState, entry.term)
  IN IF isFailure(updated)
       THEN sessionReturn(session, updated)
       ELSE [sessionTrack(session, session.selection[1]) EXCEPT
               !.testState = updated.value.state,
               !.asked = @ + 1,
               !.pc = "loop",
               !.selection = Undefined]

\* runTestSessionAnswer that tracks nothing.
runTestSessionAnswerUntracked(session, answer) ==
  IF answer # "y" /\ answer # "n"
    THEN session
    ELSE LET entry == session.selection[1].entry
             updated == IF answer = "y"
                          THEN appRememberEntry(session.testState, entry.term)
                          ELSE appForgetEntry(session.testState, entry.term)
         IN IF isFailure(updated)
              THEN sessionReturn(session, updated)
              ELSE [session EXCEPT !.testState = updated.value.state,
                                   !.asked = @ + 1,
                                   !.pc = "loop",
                                   !.selection = Undefined]

\* An answer to the remember prompt: anything but y and n asks again.
runTestSessionAnswer(session, answer) ==
  IF answer # "y" /\ answer # "n"
    THEN session
    ELSE LET entry == session.selection[1].entry
             updated == IF answer = "y"
                          THEN appRememberEntry(session.testState, entry.term)
                          ELSE appForgetEntry(session.testState, entry.term)
         IN IF isFailure(updated)
              THEN sessionReturn(session, updated)
              ELSE [sessionTrack(session, session.selection[1]) EXCEPT
                      !.testState = updated.value.state,
                      !.asked = @ + 1,
                      !.pc = "loop",
                      !.selection = Undefined]

(***************************************************************************)
(* The state machine.  state is the AppState carried from one command to   *)
(* the next (a command's Success replaces it, a Failure leaves it); last   *)
(* holds the call whose Result the caller is looking at: its name, its     *)
(* inputs, its Result and the state it was applied to.  Calls are made one *)
(* at a time: the next one starts once the caller has let go of the        *)
(* previous Result (Continue).  invocations holds the CLI invocations in   *)
(* progress; only the CLI specification changes it.                        *)
(***************************************************************************)
defaultDictionary ==
  [name |-> "default",
   language |-> [source |-> "english", target |-> "japanese"]]

createState(dictionary, entries) ==
  [dictionary |-> dictionary, entries |-> entries]

\* The size of a stored state: every meaning, every example and every score
\* point counts one.
RECURSIVE stateSize(_)
stateSize(entries) ==
  IF entries = <<>> THEN 0
  ELSE LET entry == Head(entries)
       IN Len(entry.meanings) + entry.score
          + (IF entry.examples = Undefined THEN 0 ELSE Len(entry.examples[1]))
          + stateSize(Tail(entries))

WithinBounds(st) == stateSize(st.entries) <= MaxSize

GeneratorResults == {failAi} \cup {succeed(examples) : examples \in ExampleLists}

ExamplesArguments == {Undefined} \cup {Some(examples) : examples \in ExampleLists}

MeaningLists == SeqsUpTo(Meanings, MaxArgs)

NoCall == [op |-> "none"]

Idle == last.op = "none"

(***************************************************************************)
(* storage.ts and the CLI handlers.  The dictionary file holds the         *)
(* dictionary and its entries; load parses every entry again, save writes  *)
(* the whole file.                                                         *)
(***************************************************************************)
\* The examples of the entry schema: optional, each trimmed and non-empty.
storageParseExamples(examples) ==
  IF examples = Undefined
    THEN succeed(Undefined)
    ELSE IF \E i \in 1..Len(examples[1]) : trim(examples[1][i]) = <<>>
      THEN failFileIO
      ELSE succeed(Some([i \in 1..Len(examples[1]) |-> trim(examples[1][i])]))

RECURSIVE storageParseEntries(_)
storageParseEntries(entries) ==
  IF entries = <<>>
    THEN succeed(<<>>)
    ELSE LET entry == Head(entries)
             examples == storageParseExamples(entry.examples)
             term == parseTerm(entry.term)
             meanings == parseMeanings(entry.meanings)
             score == parseScore(entry.score)
             rest == storageParseEntries(Tail(entries))
         IN IF \/ isFailure(examples)
               \/ isFailure(term)
               \/ isFailure(meanings)
               \/ isFailure(score)
              THEN failFileIO
              ELSE IF isFailure(rest)
                THEN rest
                ELSE succeed(<<createEntry(term.value, meanings.value,
                                           examples.value, Some(score.value))>>
                             \o rest.value)

storageLoad(file) ==
  LET entries == storageParseEntries(file.entries)
  IN IF isFailure(entries)
       THEN entries
       ELSE succeed([dictionary |-> file.dictionary, entries |-> entries.value])

\* The file written for the data.
storageSave(data) == [dictionary |-> data.dictionary, entries |-> data.entries]

loadCurrentState(file) ==
  LET currentStore == storageLoad(file)
  IN IF isFailure(currentStore)
       THEN currentStore
       ELSE succeed([currentDictionary |-> file.dictionary.name,
                     state |-> createState(currentStore.value.dictionary,
                                           currentStore.value.entries)])

listEntry(st, termInput) ==
  LET term == parseTerm(termInput)
  IN IF isFailure(term)
       THEN term
       ELSE LET entry == findEntry(st.entries, term.value)
            IN IF isFailure(entry)
                 THEN entry
                 ELSE succeed([dictionaryName |-> st.dictionary.name,
                               entry |-> entry.value])

\* handleAdd after the load: the state to save, or the Failure returned.
handleAdd(loaded, command) ==
  appAddEntryMeanings(loaded.state, command.term, command.meanings)

\* A count given on the command line, as the number its text denotes; a
\* text that denotes no number is -1.
parseExampleCount(value) ==
  IF value \in Nat /\ value >= 1 THEN succeed(value) ELSE failInvalidInput

defaultExampleCount == 3

\* handleExamplesGenerate after the load: config is the Result of reading
\* the configuration, generator the Result the generator resolves to.
handleExamplesGenerate(loaded, command, config, generator) ==
  LET count == IF command.countInput # Undefined
                 THEN parseExampleCount(command.countInput[1])
                 ELSE succeed(defaultExampleCount)
      currentEntry == listEntry(loaded.state, command.term)
  IN IF isFailure(count) THEN count
     ELSE IF isFailure(config) THEN config
     ELSE IF isFailure(currentEntry)
       THEN currentEntry
       ELSE IF currentEntry.value.entry.meanings = <<>>
         THEN failInvalidInput
         ELSE appGenerateExamples(loaded.state, command.term,
                                  currentEntry.value.entry.meanings[1],
                                  generator)

(***************************************************************************)
(* option.ts and cli-command.ts: the command line after the global         *)
(* options, as a list of argument strings, parsed into a Command.  An      *)
(* optional string is Undefined or Some(string); JavaScript's "!x" holds   *)
(* for undefined and for the empty string.                                 *)
(***************************************************************************)
\* The command words and the option names, as strings of characters.
word ==
  [init |-> <<"i", "n", "i", "t">>,
   dictionary |-> <<"d", "i", "c", "t", "i", "o", "n", "a", "r", "y">>,
   new |-> <<"n", "e", "w">>,
   switch |-> <<"s", "w", "i", "t", "c", "h">>,
   clear |-> <<"c", "l", "e", "a", "r">>,
   add |-> <<"a", "d", "d">>,
   remove |-> <<"r", "e", "m", "o", "v", "e">>,
   ls |-> <<"l", "s">>,
   meanings |-> <<"m", "e", "a", "n", "i", "n", "g", "s">>,
   examples |-> <<"e", "x", "a", "m", "p", "l", "e", "s">>,
   replace |-> <<"r", "e", "p", "l", "a", "c", "e">>,
   generate |-> <<"g", "e", "n", "e", "r", "a", "t", "e">>,
   test |-> <<"t", "e", "s", "t">>]

option ==
  [h |-> <<"-", "h">>,
   help |-> <<"-", "-", "h", "e", "l", "p">>,
   d |-> <<"-", "d">>,
   dictionary |-> <<"-", "-", "d", "i", "c", "t", "i", "o", "n", "a", "r", "y">>,
   c |-> <<"-", "c">>,
   count |-> <<"-", "-", "c", "o", "u", "n", "t">>,
   source |-> <<"-", "-", "s", "o", "u", "r", "c", "e">>,
   target |-> <<"-", "-", "t", "a", "r", "g", "e", "t">>]

\* values.includes(x), for an array and for the characters of a string.
includes(values, x) == \E i \in 1..Len(values) : values[i] = x

falsy(optional) == optional = Undefined \/ optional[1] = <<>>

\* args[i], undefined past the end.
argAt(args, i) == IF i \in 1..Len(args) THEN Some(args[i]) ELSE Undefined

startsWith(arg, prefix) ==
  Len(arg) >= Len(prefix) /\ SubSeq(arg, 1, Len(prefix)) = prefix

\* names.find(name => arg === name || arg.startsWith(`${name}=`)), as the
\* position of the first such name, 0 for none.
optionMatch(arg, names) ==
  LET matching == {k \in 1..Len(names) :
                     arg = names[k] \/ startsWith(arg, names[k] \o <<"=">>)}
  IN IF matching = {} THEN 0
     ELSE CHOOSE k \in matching : \A other \in matching : k <= other

\* The loop of extractOption from position i on.
RECURSIVE extractOptionFrom(_, _, _, _, _)
extractOptionFrom(args, names, i, value, rest) ==
  IF i > Len(args)
    THEN [value |-> value, args |-> rest]
    ELSE
      LET arg == args[i]
          match == optionMatch(arg, names)
      IN IF arg = <<>>
           THEN extractOptionFrom(args, names, i + 1, value, rest)
           ELSE IF match # 0
             THEN IF includes(arg, "=")
                    THEN extractOptionFrom(args, names, i + 1,
                           Some(SubSeq(arg, Len(names[match]) + 2, Len(arg))),
                           rest)
                    ELSE extractOptionFrom(args, names, i + 2,
                                           argAt(args, i + 1), rest)
             ELSE extractOptionFrom(args, names, i + 1, value,
                                    Append(rest, arg))

extractOption(args, names) == extractOptionFrom(args, names, 1, Undefined, <<>>)

\* value.split(","): the pieces between the commas.
RECURSIVE split(_, _)
split(value, piece) ==
  IF value = <<>> THEN <<piece>>
  ELSE IF Head(value) = ","
    THEN <<piece>> \o split(Tail(value), <<>>)
    ELSE split(Tail(value), Append(piece, Head(value)))

\* values.join(" ")
RECURSIVE join(_)
join(values) ==
  IF values = <<>> THEN <<>>
  ELSE IF Len(values) = 1 THEN values[1]
  ELSE values[1] \o <<" ">> \o join(Tail(values))

parseDictionaryCommand(subcommand, rest) ==
  IF subcommand = Some(word.new)
    THEN LET name == argAt(rest, 1)
             optionArgs == SubSeq(rest, 2, Len(rest))
             source == extractOption(optionArgs, <<option.source>>).value
             target == extractOption(optionArgs, <<option.target>>).value
         IN IF falsy(name)
              THEN failInvalidInput
              ELSE IF falsy(source) \/ falsy(target)
                THEN failInvalidInput
                ELSE succeed([kind |-> "dictionary.new", name |-> name[1],
                              source |-> source[1], target |-> target[1]])
  ELSE IF subcommand = Some(word.switch)
    THEN LET name == argAt(rest, 1)
         IN IF falsy(name)
              THEN failInvalidInput
              ELSE succeed([kind |-> "dictionary.switch", name |-> name[1]])
  ELSE IF subcommand = Some(word.clear)
    THEN LET extracted == extractOption(rest, <<option.d, option.dictionary>>)
         IN IF falsy(extracted.value)
              THEN failInvalidInput
              ELSE succeed([kind |-> "dictionary.clear",
                            dictionary |-> extracted.value[1]])
  ELSE failInvalidInput

\* [subcommand ?? "", ...rest]
withSubcommand(subcommand, rest) ==
  <<IF subcommand = Undefined THEN <<>> ELSE subcommand[1]>> \o rest

\* remove that takes the current dictionary when no -d is given.
parseRemoveCommandDefaulting(subcommand, rest) ==
  LET extracted == extractOption(withSubcommand(subcommand, rest),
                                 <<option.d, option.dictionary>>)
      term == argAt(extracted.args, 1)
  IN IF falsy(term)
       THEN failInvalidInput
       ELSE succeed([kind |-> "remove",
                     dictionary |-> IF extracted.value = Undefined
                                      THEN <<>>
                                      ELSE extracted.value[1],
                     term |-> term[1],
                     meaning |-> argAt(extracted.args, 2)])

parseRemoveCommand(subcommand, rest) ==
  LET extracted == extractOption(withSubcommand(subcommand, rest),
                                 <<option.d, option.dictionary>>)
      term == argAt(extracted.args, 1)
  IN IF falsy(extracted.value)
       THEN failInvalidInput
       ELSE IF falsy(term)
         THEN failInvalidInput
         ELSE succeed([kind |-> "remove", dictionary |-> extracted.value[1],
                       term |-> term[1],
                       meaning |-> argAt(extracted.args, 2)])

parseReplaceCommand(subcommand, rest) ==
  LET extracted == extractOption(withSubcommand(subcommand, rest),
                                 <<option.d, option.dictionary>>)
      term == argAt(extracted.args, 1)
      meaningsInput == SubSeq(extracted.args, 2, Len(extracted.args))
  IN IF falsy(extracted.value)
       THEN failInvalidInput
       ELSE IF falsy(term) \/ Len(meaningsInput) = 0
         THEN failInvalidInput
         ELSE succeed([kind |-> "replace", dictionary |-> extracted.value[1],
                       term |-> term[1], meanings |-> meaningsInput])

parseLsCommand(subcommand, rest) ==
  LET view == argAt(rest, 1)
  IN IF falsy(subcommand)
       THEN succeed([kind |-> "list", term |-> Undefined])
       ELSE IF falsy(view)
         THEN succeed([kind |-> "list", term |-> subcommand])
         ELSE IF view = Some(word.meanings)
           THEN succeed([kind |-> "list.meanings", term |-> subcommand[1]])
           ELSE IF view = Some(word.examples)
             THEN succeed([kind |-> "list.examples", term |-> subcommand[1]])
             ELSE failInvalidInput

parseExamplesCommand(subcommand, rest) ==
  LET action == argAt(rest, 1)
  IN IF falsy(subcommand)
          \/ (action # Some(word.generate) /\ action # Some(word.add))
       THEN failInvalidInput
       ELSE IF action = Some(word.add)
         THEN LET exampleInput == trim(join(SubSeq(rest, 2, Len(rest))))
              IN IF exampleInput = <<>>
                   THEN failInvalidInput
                   ELSE succeed([kind |-> "examples.add",
                                 term |-> subcommand[1],
                                 example |-> exampleInput])
         ELSE LET countArgs == SubSeq(rest, 2, Len(rest))
                  countFlag == includes(countArgs, option.c)
                                 \/ includes(countArgs, option.count)
                  extracted == extractOption(countArgs,
                                             <<option.c, option.count>>)
              IN IF countFlag /\ falsy(extracted.value)
                   THEN failInvalidInput
                   ELSE succeed([kind |-> "examples.generate",
                                 term |-> subcommand[1],
                                 countInput |-> extracted.value])

parseCliCommand(args) ==
  IF Len(args) = 0 \/ includes(args, option.h) \/ includes(args, option.help)
    THEN succeed([kind |-> "help"])
    ELSE
      LET command == args[1]
          subcommand == argAt(args, 2)
          rest == SubSeq(args, 3, Len(args))
      IN IF command = <<>> THEN failInvalidInput
         ELSE IF command = word.init THEN succeed([kind |-> "init"])
         ELSE IF command = word.dictionary
           THEN parseDictionaryCommand(subcommand, rest)
         ELSE IF command = word.add
           THEN IF falsy(subcommand) \/ falsy(argAt(rest, 1))
                  THEN failInvalidInput
                  ELSE succeed([kind |-> "add", term |-> subcommand[1],
                                meanings |-> split(rest[1], <<>>)])
         ELSE IF command = word.remove
           THEN parseRemoveCommand(subcommand, rest)
         ELSE IF command = word.ls THEN parseLsCommand(subcommand, rest)
         ELSE IF command = word.replace
           THEN parseReplaceCommand(subcommand, rest)
         ELSE IF command = word.examples
           THEN parseExamplesCommand(subcommand, rest)
         ELSE IF command = word.test
           THEN IF falsy(subcommand)
                  THEN failInvalidInput
                  ELSE succeed([kind |-> "test", modeInput |-> subcommand[1],
                                countInput |-> argAt(rest, 1)])
         ELSE failInvalidInput

\* The handler handleCommand gives a command to.
handleCommand(command) ==
  CASE command.kind = "help" -> "help"
    [] command.kind = "init" -> "handleInit"
    [] command.kind = "dictionary.new" -> "handleDictionaryNew"
    [] command.kind = "dictionary.switch" -> "handleDictionarySwitch"
    [] command.kind = "dictionary.clear" -> "handleDictionaryClear"
    [] command.kind = "add" -> "handleAdd"
    [] command.kind = "remove" -> "handleRemove"
    [] command.kind = "list" -> "handleList"
    [] command.kind = "list.meanings" -> "handleListMeanings"
    [] command.kind = "list.examples" -> "handleListExamples"
    [] command.kind = "replace" -> "handleReplace"
    [] command.kind = "examples.add" -> "handleExamplesAdd"
    [] command.kind = "examples.generate" -> "handleExamplesGenerate"
    [] command.kind = "test" -> "handleTest"
    [] OTHER -> "none"

(***************************************************************************)
(* The workspace of the CLI handlers: the dictionary files, by dictionary  *)
(* name, and the state file that names the current dictionary.  A handler  *)
(* run is the record of what one invocation did: the Result it returned,   *)
(* the Result of its core command, the data of every storage.save call it  *)
(* made, in order, and the workspace it left.                              *)
(***************************************************************************)
DictionaryNames == {<<"x">>, <<"y">>}

\* No dictionary file, no state file.
emptyWorkspace ==
  [files |-> [name \in DictionaryNames |-> Undefined], current |-> Undefined]

parseDictionaryName(name) == parseNonEmpty(name)

parseDictionary(name, languageInput) ==
  LET parsedName == parseDictionaryName(name)
      parsedSource == parseNonEmpty(languageInput.source)
      parsedTarget == parseNonEmpty(languageInput.target)
  IN IF isFailure(parsedName) THEN parsedName
     ELSE IF isFailure(parsedSource) THEN parsedSource
     ELSE IF isFailure(parsedTarget) THEN parsedTarget
     ELSE succeed([name |-> parsedName.value,
                   language |-> [source |-> parsedSource.value,
                                 target |-> parsedTarget.value]])

createDictionary(nameInput, languageInput) ==
  LET parsed == parseDictionary(nameInput, languageInput)
  IN IF isFailure(parsed)
       THEN parsed
       ELSE succeed([dictionary |-> [name |-> parsed.value.name,
                                     language |-> parsed.value.language]])

clearDictionary(st, dictionaryNameInput) ==
  LET dictionaryName == parseDictionaryName(dictionaryNameInput)
  IN IF isFailure(dictionaryName)
       THEN dictionaryName
       ELSE IF st.dictionary.name # dictionaryName.value
         THEN failNotFound
         ELSE succeed([state |-> [st EXCEPT !.entries = <<>>],
                       dictionaryName |-> st.dictionary.name])

dictionaryExists(ws, dictionaryName) ==
  dictionaryName \in DictionaryNames /\ ws.files[dictionaryName] # Undefined

\* The names of the dictionary files.
listDictionaryNames(ws) ==
  {name \in DictionaryNames : dictionaryExists(ws, name)}

\* first is the name the directory listing yields first.
loadCurrentDictionary(ws, first) ==
  IF ws.current = Undefined
    THEN IF listDictionaryNames(ws) = {}
           THEN failNotFound
           ELSE succeed(first)
    ELSE LET dictionaryName == parseDictionaryName(ws.current[1])
         IN IF isFailure(dictionaryName)
              THEN dictionaryName
              ELSE IF ~dictionaryExists(ws, dictionaryName.value)
                THEN failNotFound
                ELSE dictionaryName

\* FileVocabularyStorage.load: the file holds the language and the entries,
\* its name is the dictionary's.
workspaceLoad(ws, dictionaryName) ==
  IF ~dictionaryExists(ws, dictionaryName)
    THEN failFileIO
    ELSE storageLoad([dictionary |->
                        [name |-> dictionaryName,
                         language |-> ws.files[dictionaryName][1].language],
                      entries |-> ws.files[dictionaryName][1].entries])

\* FileVocabularyStorage.save
workspaceSave(ws, data) ==
  [ws EXCEPT !.files[data.dictionary.name] =
               Some([language |-> data.dictionary.language,
                     entries |-> data.entries])]

\* loadCurrentState against the workspace.
workspaceLoadCurrentState(ws, first) ==
  LET currentDictionary == loadCurrentDictionary(ws, first)
  IN IF isFailure(currentDictionary)
       THEN currentDictionary
       ELSE LET currentStore == workspaceLoad(ws, currentDictionary.value)
            IN IF isFailure(currentStore)
                 THEN currentStore
                 ELSE succeed([currentDictionary |-> currentDictionary.value,
                               state |-> createState(
                                           currentStore.value.dictionary,
                                           currentStore.value.entries)])

\* The load of handleRemove, handleReplace and handleDictionaryClear: the
\* current dictionary is resolved, the dictionary named on the command line
\* is loaded.
loadTargetState(ws, first, dictionary) ==
  LET currentDictionary == loadCurrentDictionary(ws, first)
      target == parseDictionaryName(dictionary)
  IN IF isFailure(currentDictionary) THEN currentDictionary
     ELSE IF isFailure(target) THEN target
     ELSE IF ~dictionaryExists(ws, target.value) THEN failNotFound
     ELSE LET targetStore == workspaceLoad(ws, target.value)
          IN IF isFailure(targetStore)
               THEN targetStore
               ELSE succeed([currentDictionary |-> currentDictionary.value,
                             state |-> createState(
                                         targetStore.value.dictionary,
                                         targetStore.value.entries)])

\* A handler that returns before its core command.
returnFailure(ws, failure) ==
  [result |-> failure, core |-> Undefined, saves |-> <<>>, workspace |-> ws]

\* The end of a handler that writes the state of a Success twice.
saveAndReturnTwice(ws, core, written) ==
  IF isFailure(core)
    THEN [result |-> core, core |-> Some(core), saves |-> <<>>,
          workspace |-> ws]
    ELSE LET data == storageSave(core.value.state)
         IN [result |-> IF written THEN succeed("json") ELSE failFileIO,
             core |-> Some(core),
             saves |-> <<data, data>>,
             workspace |-> IF written THEN workspaceSave(ws, data) ELSE ws]

\* The end of a handler: a Failure of the core command is returned, the
\* state of a Success is saved.  written is whether the write goes through.
saveAndReturn(ws, core, written) ==
  IF isFailure(core)
    THEN [result |-> core, core |-> Some(core), saves |-> <<>>,
          workspace |-> ws]
    ELSE LET data == storageSave(core.value.state)
         IN [result |-> IF written THEN succeed("json") ELSE failFileIO,
             core |-> Some(core),
             saves |-> <<data>>,
             workspace |-> IF written THEN workspaceSave(ws, data) ELSE ws]

parseTestMode(modeInput) ==
  IF modeInput \in TestModes THEN succeed(modeInput) ELSE failInvalidInput

\* As parseExampleCount.
parseTestCount(value) ==
  IF value \in Nat /\ value >= 1 THEN succeed(value) ELSE failInvalidInput

defaultTestCount == 10

\* runTestSession from its loop to its return, every random draw being
\* entryRng and exampleRng and every answer being answer.
RECURSIVE runTestSessionToEnd(_, _, _, _)
runTestSessionToEnd(session, entryRng, exampleRng, answer) ==
  IF session.pc = "returned"
    THEN session.result[1]
    ELSE IF session.pc = "loop"
      THEN runTestSessionToEnd(runTestSessionLoop(session, entryRng, exampleRng),
                               entryRng, exampleRng, answer)
      ELSE runTestSessionToEnd(runTestSessionAnswer(session, answer),
                               entryRng, exampleRng, answer)

\* handleTest after the load.
handleTest(loaded, command, entryRng, exampleRng, answer) ==
  LET mode == parseTestMode(command.modeInput)
      count == IF command.countInput # Undefined
                 THEN parseTestCount(command.countInput[1])
                 ELSE succeed(defaultTestCount)
  IN IF isFailure(mode) THEN mode
     ELSE IF isFailure(count) THEN count
     ELSE runTestSessionToEnd(
            runTestSessionStart(loaded.state, mode.value, count.value),
            entryRng, exampleRng, answer)

\* The core command of a handler that saves a state, after the load.  env
\* holds what the invocation meets outside the program.
handlerCore(loaded, command, env) ==
  CASE command.kind = "add" -> handleAdd(loaded, command)
    [] command.kind = "examples.add" ->
         appAddEntryExample(loaded.state, command.term, command.example)
    [] command.kind = "examples.generate" ->
         handleExamplesGenerate(loaded, command, env.config, env.generator)
    [] command.kind = "test" ->
         handleTest(loaded, command, env.entryRng, env.exampleRng, env.answer)
    [] command.kind = "remove" ->
         appRemoveEntry(loaded.state, command.term, command.meaning)
    [] command.kind = "replace" ->
         appReplaceEntry(loaded.state, command.term, command.meanings, Undefined)
    [] command.kind = "dictionary.clear" ->
         clearDictionary(loaded.state, command.dictionary)

\* One invocation of a handler that saves a state.
runHandler(ws, command, env) ==
  LET loaded == IF command.kind \in {"remove", "replace", "dictionary.clear"}
                  THEN loadTargetState(ws, env.first, command.dictionary)
                  ELSE workspaceLoadCurrentState(ws, env.first)
  IN IF isFailure(loaded)
       THEN returnFailure(ws, loaded)
       ELSE saveAndReturn(ws, handlerCore(loaded.value, command, env),
                          env.written)

\* handleDictionaryNew that registers whatever the name.
handleDictionaryNewOverwriting(ws, command, written) ==
  LET parsedName == parseDictionaryName(command.name)
      result == createDictionary(command.name,
                                 [source |-> command.source,
                                  target |-> command.target])
  IN IF isFailure(parsedName) THEN returnFailure(ws, parsedName)
     ELSE IF isFailure(result)
       THEN [returnFailure(ws, result) EXCEPT !.core = Some(result)]
       ELSE saveAndReturn(ws,
                          succeed([state |-> createState(
                                               result.value.dictionary, <<>>)]),
                          written)

handleDictionaryNew(ws, command, written) ==
  LET parsedName == parseDictionaryName(command.name)
      result == createDictionary(command.name,
                                 [source |-> command.source,
                                  target |-> command.target])
  IN IF isFailure(parsedName) THEN returnFailure(ws, parsedName)
     ELSE IF dictionaryExists(ws, parsedName.value)
       THEN returnFailure(ws, failConflict)
     ELSE IF isFailure(result)
       THEN [returnFailure(ws, result) EXCEPT !.core = Some(result)]
       ELSE saveAndReturn(ws,
                          succeed([state |-> createState(
                                               result.value.dictionary, <<>>)]),
                          written)

\* saveCurrentDictionary writes the state file.
handleDictionarySwitch(ws, command, written) ==
  LET parsedName == parseDictionaryName(command.name)
  IN IF isFailure(parsedName) THEN returnFailure(ws, parsedName)
     ELSE IF ~dictionaryExists(ws, parsedName.value)
       THEN returnFailure(ws, failNotFound)
     ELSE [result |-> IF written THEN succeed("json") ELSE failFileIO,
           core |-> Undefined, saves |-> <<>>,
           workspace |-> IF written
                           THEN [ws EXCEPT !.current = Some(parsedName.value)]
                           ELSE ws]

\* initWorkspace writes the state file when there is none.
handleInit(ws) ==
  [result |-> succeed("json"), core |-> Undefined, saves |-> <<>>,
   workspace |-> IF ws.current = Undefined
                   THEN [ws EXCEPT !.current = Some(<<>>)]
                   ELSE ws]

\* The command invocations in progress, each with what it has loaded.
Invocations == {"first", "second"}

NoInvocation == [pc |-> "none"]

Init ==
  /\ state = createState(defaultDictionary, <<>>)
  /\ last = NoCall
  /\ invocations = [p \in Invocations |-> NoInvocation]
  /\ workspace = emptyWorkspace

\* A command: its Result is recorded, and its new state is kept on Success.
Command(op, input, result) ==
  /\ Idle
  /\ isSuccess(result) => WithinBounds(result.value.state)
  /\ state' = IF isSuccess(result) THEN result.value.state ELSE state
  /\ last' = [op |-> op, input |-> input, result |-> result, pre |-> state]
  /\ UNCHANGED <<invocations, workspace>>

\* A query: its Result is recorded, the state is left alone.
Query(op, input, result) ==
  /\ Idle
  /\ state' = state
  /\ last' = [op |-> op, input |-> input, result |-> result, pre |-> state]
  /\ UNCHANGED <<invocations, workspace>>

AddEntryMeanings ==
  \E term \in Terms, meanings \in MeaningLists :
    Command("addEntryMeanings", [term |-> term, meanings |-> meanings],
            addEntryMeanings(state, term, meanings))

AddEntryExample ==
  \E term \in Terms, example \in Examples :
    Command("addEntryExample", [term |-> term, example |-> example],
            addEntryExample(state, term, example))

RemoveEntry ==
  \E term \in Terms, meaning \in {Undefined} \cup {Some(m) : m \in Meanings} :
    Command("removeEntry", [term |-> term, meaning |-> meaning],
            removeEntry(state, term, meaning))

ReplaceEntryInAppState ==
  \E term \in Terms, meanings \in MeaningLists, examples \in ExamplesArguments :
    Command("replaceEntryInAppState",
            [term |-> term, meanings |-> meanings, examples |-> examples],
            replaceEntryInAppState(state, term, meanings, examples))

\* As Command, with the calls made to the generator recorded as well.
GenerateExamples ==
  \E term \in Terms, meaning \in Meanings, generator \in GeneratorResults :
    LET run == generateExamplesRun(state, term, meaning, generator)
    IN /\ Idle
       /\ isSuccess(run.result) => WithinBounds(run.result.value.state)
       /\ state' = IF isSuccess(run.result)
                     THEN run.result.value.state
                     ELSE state
       /\ last' = [op |-> "generateExamples",
                   input |-> [term |-> term, meaning |-> meaning,
                              generator |-> generator],
                   result |-> run.result, pre |-> state,
                   generatorCalls |-> run.generatorCalls]
       /\ UNCHANGED <<invocations, workspace>>

RememberEntry ==
  \E term \in Terms :
    Command("rememberEntry", [term |-> term], rememberEntry(state, term))

ForgetEntry ==
  \E term \in Terms :
    Command("forgetEntry", [term |-> term], forgetEntry(state, term))

\* The rng values at which the choice among entries changes: for each entry
\* the upper end and the middle of the pick values between the cumulative
\* weight before it and the cumulative weight with it.
RngPoints(entries) ==
  {fraction(2 * totalWeight(SubSeq(entries, 1, i)) - half * weight(entries[i]),
            2 * totalWeight(entries)) :
     i \in 1..Len(entries), half \in {0, 1}}

SelectMeaningTestEntry ==
  \E usedTerms \in SUBSET Terms :
  \E rng \in RngValues \cup
              RngPoints(SelectSeq(state.entries,
                          LAMBDA entry : meaningsIsEligible(usedTerms, entry))) :
    Query("selectMeaningTestEntry", [usedTerms |-> usedTerms, rng |-> rng],
          selectMeaningTestEntry(state, usedTerms, rng))

\* The first draw is taken at the two ends, r = 0 and r = 1; the second
\* draw runs over the grid.
SelectExampleTestEntry ==
  \E usedExamples \in SUBSET Examples,
     entryRng \in {fraction(0, 1), fraction(1, 1)},
     exampleRng \in RngValues :
    Query("selectExampleTestEntry",
          [usedExamples |-> usedExamples, entryRng |-> entryRng,
           exampleRng |-> exampleRng],
          selectExampleTestEntry(state, usedExamples, entryRng, exampleRng))

\* The next call is made once the last one has returned.
Continue ==
  /\ ~Idle
  /\ last.op = "runTestSession" => last.session.pc = "returned"
  /\ last' = NoCall
  /\ UNCHANGED <<state, invocations, workspace>>

Next ==
  \/ Continue
  \/ AddEntryMeanings
  \/ AddEntryExample
  \/ RemoveEntry
  \/ ReplaceEntryInAppState
  \/ GenerateExamples
  \/ RememberEntry
  \/ ForgetEntry
  \/ SelectMeaningTestEntry
  \/ SelectExampleTestEntry

Spec == Init /\ [][Next]_vars

(***************************************************************************)
(* The example selection on its own, over states built by the core         *)
(* commands that store meanings and examples.                              *)
(***************************************************************************)
\* The core command takes any string as the example, the empty one too;
\* only the application's addEntryExample parses it first.
AddEntryEmptyExample ==
  \E term \in Terms :
    Command("addEntryExample", [term |-> term, example |-> <<>>],
            addEntryExample(state, term, <<>>))

ExampleNext ==
  \/ Continue
  \/ AddEntryMeanings
  \/ AddEntryExample
  \/ AddEntryEmptyExample
  \/ SelectExampleTestEntry

ExampleSpec == Init /\ [][ExampleNext]_vars

(***************************************************************************)
(* The same machine driven through application.ts: raw strings in.         *)
(***************************************************************************)
AppAddEntryMeanings ==
  \E termInput \in RawTerms, meaningsInput \in RawMeaningLists :
    Command("addEntryMeanings",
            [term |-> termInput, meanings |-> meaningsInput],
            appAddEntryMeanings(state, termInput, meaningsInput))

AppAddEntryExample ==
  \E termInput \in RawTerms, exampleInput \in RawExamples :
    Command("addEntryExample", [term |-> termInput, example |-> exampleInput],
            appAddEntryExample(state, termInput, exampleInput))

AppRemoveEntry ==
  \E termInput \in RawTerms,
     meaningInput \in {Undefined} \cup {Some(m) : m \in RawMeanings} :
    Command("removeEntry", [term |-> termInput, meaning |-> meaningInput],
            appRemoveEntry(state, termInput, meaningInput))

AppReplaceEntry ==
  \E termInput \in RawTerms, meaningsInput \in RawMeaningLists,
     examples \in {Undefined, Some(<<<<"e">>>>)} :
    Command("replaceEntry",
            [term |-> termInput, meanings |-> meaningsInput,
             examples |-> examples],
            appReplaceEntry(state, termInput, meaningsInput, examples))

AppGenerateExamples ==
  \E termInput \in RawTerms, meaningInput \in RawMeanings,
     generator \in {failAi, succeed(<<<<"e">>>>)} :
    Command("generateExamples",
            [term |-> termInput, meaning |-> meaningInput,
             generator |-> generator],
            appGenerateExamples(state, termInput, meaningInput, generator))

AppRememberEntry ==
  \E termInput \in RawTerms :
    Command("rememberEntry", [term |-> termInput],
            appRememberEntry(state, termInput))

AppForgetEntry ==
  \E termInput \in RawTerms :
    Command("forgetEntry", [term |-> termInput],
            appForgetEntry(state, termInput))

AppNext ==
  \/ Continue
  \/ AppAddEntryMeanings
  \/ AppAddEntryExample
  \/ AppRemoveEntry
  \/ AppReplaceEntry
  \/ AppGenerateExamples
  \/ AppRememberEntry
  \/ AppForgetEntry

AppSpec == Init /\ [][AppNext]_vars

(***************************************************************************)
(* Test sessions: runTestSession over the states the core commands build.  *)
(* The session in progress is kept in last; it leaves state alone, the     *)
(* caller saves the returned state.                                        *)
(***************************************************************************)
\* The call of runTestSession, up to the loop.
RunTestSession ==
  \E mode \in TestModes \cup {"terms"}, count \in 1..MaxCount :
    /\ Idle
    /\ last' = [op |-> "runTestSession",
                input |-> [mode |-> mode, count |-> count],
                pre |-> state,
                session |-> runTestSessionStart(state, mode, count)]
    /\ UNCHANGED <<state, invocations, workspace>>

InSession(pc) == last.op = "runTestSession" /\ last.session.pc = pc

RunTestSessionLoop ==
  \E entryRng \in RandomValues, exampleRng \in RandomValues :
    /\ InSession("loop")
    /\ last' = [last EXCEPT
                  !.session = runTestSessionLoop(@, entryRng, exampleRng)]
    /\ UNCHANGED <<state, invocations, workspace>>

RunTestSessionAnswer ==
  \E answer \in {"y", "n", "yes"} :
    /\ InSession("ask")
    /\ last' = [last EXCEPT !.session = runTestSessionAnswer(@, answer)]
    /\ UNCHANGED <<state, invocations, workspace>>

SessionNext ==
  \/ Continue
  \/ AddEntryMeanings
  \/ AddEntryExample
  \/ RememberEntry
  \/ RunTestSession
  \/ RunTestSessionLoop
  \/ RunTestSessionAnswer

SessionSpec == Init /\ [][SessionNext]_vars

\* The session as it is scheduled: the function goes on from the loop
\* condition whenever it is there, and a remember prompt that is waiting
\* does get an answer of y or n in the end (an answer that leaves the
\* session as it was is no step of RunTestSessionAnswer).
SessionFairSpec ==
  /\ SessionSpec
  /\ WF_vars(RunTestSessionLoop)
  /\ WF_vars(RunTestSessionAnswer)

(***************************************************************************)
(* The CLI: two command invocations against one dictionary file.  state is *)
(* the file.  A handler loads the file, works on what it loaded across its *)
(* awaits, and saves; last records the handler that returned last,         *)
(* whether another invocation had saved since its load (stale), and the    *)
(* terms that were in the file before its save and not after (dropped).    *)
(* The first invocation runs any of the three handlers, the second an add. *)
(***************************************************************************)
\* The load of loadCurrentState at the start of a handler.
Load(p, command) ==
  LET loaded == loadCurrentState(state)
  IN /\ invocations[p] = NoInvocation
     /\ isSuccess(loaded)
     /\ invocations' = [invocations EXCEPT
                          ![p] = [pc |-> "loaded", command |-> command,
                                  loaded |-> loaded.value, stale |-> FALSE]]
     /\ UNCHANGED <<state, last, workspace>>

\* The end of a handler: a Success is saved, a Failure is returned as it is.
\* The save makes what the other invocations have loaded stale.
Return(p, result) ==
  /\ isSuccess(result) => WithinBounds(result.value.state)
  /\ state' = IF isSuccess(result)
                THEN storageSave(result.value.state)
                ELSE state
  /\ last' = [op |-> invocations[p].command.kind, invocation |-> p,
              saved |-> isSuccess(result), stale |-> invocations[p].stale,
              dropped |->
                IF isSuccess(result)
                  THEN {state.entries[i].term : i \in 1..Len(state.entries)}
                       \ {result.value.state.entries[i].term :
                            i \in 1..Len(result.value.state.entries)}
                  ELSE {}]
  /\ invocations' =
       [q \in Invocations |->
          IF q = p THEN NoInvocation
          ELSE IF isSuccess(result) /\ invocations[q] # NoInvocation
            THEN [invocations[q] EXCEPT !.stale = TRUE]
            ELSE invocations[q]]
  /\ UNCHANGED workspace

HandleAddLoad ==
  \E p \in Invocations, term \in Terms :
    Load(p, [kind |-> "add", term |-> term, meanings |-> <<<<"m">>>>])

HandleAddSave ==
  \E p \in Invocations :
    /\ invocations[p].pc = "loaded"
    /\ invocations[p].command.kind = "add"
    /\ Return(p, handleAdd(invocations[p].loaded, invocations[p].command))

HandleExamplesGenerateLoad ==
  \E p \in {"first"}, term \in Terms :
    Load(p, [kind |-> "examples.generate", term |-> term,
             countInput |-> Undefined])

\* The generator resolves, and the handler runs to its end.
HandleExamplesGenerateSave ==
  \E p \in Invocations, generator \in {failAi, succeed(<<<<"e">>>>)} :
    /\ invocations[p].pc = "loaded"
    /\ invocations[p].command.kind = "examples.generate"
    /\ Return(p, handleExamplesGenerate(invocations[p].loaded,
                                         invocations[p].command,
                                         succeed("config"), generator))

\* The load of handleTest and the call of runTestSession, up to the loop.
HandleTestLoad ==
  \E p \in {"first"}, mode \in {"meanings"} :
    LET loaded == loadCurrentState(state)
        command == [kind |-> "test", mode |-> mode, count |-> 1]
    IN /\ invocations[p] = NoInvocation
       /\ isSuccess(loaded)
       /\ invocations' = [invocations EXCEPT
                            ![p] = [pc |-> "session", command |-> command,
                                    loaded |-> loaded.value, stale |-> FALSE,
                                    session |->
                                      runTestSessionStart(loaded.value.state,
                                                          mode, command.count)]]
       /\ UNCHANGED <<state, last, workspace>>

InHandleTest(p, pc) ==
  invocations[p].pc = "session" /\ invocations[p].session.pc = pc

HandleTestLoop ==
  \E p \in Invocations, entryRng \in RandomValues, exampleRng \in RandomValues :
    /\ InHandleTest(p, "loop")
    /\ invocations' = [invocations EXCEPT
                         ![p].session =
                           runTestSessionLoop(@, entryRng, exampleRng)]
    /\ UNCHANGED <<state, last, workspace>>

HandleTestAnswer ==
  \E p \in Invocations, answer \in {"y", "n"} :
    /\ InHandleTest(p, "ask")
    /\ invocations' = [invocations EXCEPT
                         ![p].session = runTestSessionAnswer(@, answer)]
    /\ UNCHANGED <<state, last, workspace>>

\* runTestSession has returned: its state is saved.
HandleTestSave ==
  \E p \in Invocations :
    /\ InHandleTest(p, "returned")
    /\ Return(p, invocations[p].session.result[1])

CliNext ==
  \/ HandleAddLoad
  \/ HandleAddSave
  \/ HandleExamplesGenerateLoad
  \/ HandleExamplesGenerateSave
  \/ HandleTestLoad
  \/ HandleTestLoop
  \/ HandleTestAnswer
  \/ HandleTestSave

CliSpec == Init /\ [][CliNext]_vars

(***************************************************************************)
(* cli.ts: one run of the command line.  The arguments are parsed, and a   *)
(* Command that parsed is given to its handler.                            *)
(***************************************************************************)
CommandWords ==
  {word.init, word.dictionary, word.add, word.remove, word.ls, word.replace,
   word.examples, word.test, <<"a">>, <<>>}

ArgTokens ==
  {option.d, option.dictionary, option.d \o <<"=">>, option.d \o <<"=", "w">>,
   option.dictionary \o <<"=", "w">>, <<"a">>, <<"w">>, <<>>, word.clear,
   option.h}

Argvs ==
  {<<>>} \cup {<<command>> \o tail :
                 command \in CommandWords, tail \in SeqsUpTo(ArgTokens, MaxArgv)}

ParseCliCommand ==
  /\ Idle
  /\ \E args \in Argvs :
       last' = [op |-> "parseCliCommand", input |-> [args |-> args],
                result |-> parseCliCommand(args)]
  /\ UNCHANGED <<state, invocations, workspace>>

\* A parse failure is printed; only a parsed Command reaches handleCommand.
HandleCommand ==
  /\ last.op = "parseCliCommand"
  /\ isSuccess(last.result)
  /\ last' = [op |-> "handleCommand", input |-> last.input,
              command |-> last.result.value,
              handler |-> handleCommand(last.result.value)]
  /\ UNCHANGED <<state, invocations, workspace>>

ParseNext ==
  \/ Continue
  \/ ParseCliCommand
  \/ HandleCommand

ParseSpec == Init /\ [][ParseNext]_vars

(***************************************************************************)
(* The CLI handlers against the workspace, one invocation at a time.  last *)
(* holds the run of the handler that returned last and the workspace it    *)
(* started from.                                                           *)
(***************************************************************************)
RawDictionaryNames == {<<>>, <<" ", "x">>, <<"y">>}

RawLanguages == {<<" ">>, <<"s">>, <<"t">>}

CountInputs == {Undefined, Some(0), Some(1)}

\* The meanings given to add and replace: none, one, two, and an empty one.
HandlerMeaningLists ==
  {<<>>, <<<<"m">>>>, <<<<"m">>, <<" ", "n">>>>, <<<<>>>>}

\* Every entry of every dictionary file counts towards the size.
workspaceSize(ws) ==
  LET sizeOf(name) == IF ws.files[name] = Undefined
                        THEN 0
                        ELSE stateSize(ws.files[name][1].entries)
  IN sizeOf(<<"x">>) + sizeOf(<<"y">>)

\* What an invocation meets outside the program: the name the directory
\* listing yields first and whether a write goes through; the
\* configuration is read, the generator yields an example, the random
\* draws are 0 and the answers y unless the handler says otherwise.
Environments ==
  {[first |-> first, written |-> written, config |-> succeed("config"),
    generator |-> succeed(<<<<"e">>>>), entryRng |-> fraction(0, 1),
    exampleRng |-> fraction(0, 1), answer |-> "y"] :
     first \in (IF listDictionaryNames(workspace) = {}
                  THEN DictionaryNames
                  ELSE listDictionaryNames(workspace)),
     written \in BOOLEAN}

Handle(command, run) ==
  /\ workspaceSize(run.workspace) <= MaxSize
  /\ workspace' = run.workspace
  /\ last' = [op |-> command.kind, input |-> command, result |-> run.result,
              run |-> run, pre |-> workspace]
  /\ UNCHANGED <<state, invocations>>

HandleInit ==
  /\ Idle
  /\ Handle([kind |-> "init"], handleInit(workspace))

HandleDictionaryNew ==
  /\ Idle
  /\ \E name \in RawDictionaryNames, source \in RawLanguages,
        written \in BOOLEAN :
       LET command == [kind |-> "dictionary.new", name |-> name,
                       source |-> source, target |-> <<"t">>]
       IN Handle(command, handleDictionaryNew(workspace, command, written))

HandleDictionarySwitch ==
  /\ Idle
  /\ \E name \in RawDictionaryNames, written \in BOOLEAN :
       LET command == [kind |-> "dictionary.switch", name |-> name]
       IN Handle(command, handleDictionarySwitch(workspace, command, written))

HandleDictionaryClear ==
  /\ Idle
  /\ \E dictionary \in RawDictionaryNames, env \in Environments :
       LET command == [kind |-> "dictionary.clear", dictionary |-> dictionary]
       IN Handle(command, runHandler(workspace, command, env))

HandleAdd ==
  /\ Idle
  /\ \E term \in RawTerms, meanings \in HandlerMeaningLists,
        env \in Environments :
       LET command == [kind |-> "add", term |-> term, meanings |-> meanings]
       IN Handle(command, runHandler(workspace, command, env))

HandleRemove ==
  /\ Idle
  /\ \E dictionary \in RawDictionaryNames, term \in RawTerms,
        meaning \in {Undefined, Some(<<>>), Some(<<" ", "n">>)},
        env \in Environments :
       LET command == [kind |-> "remove", dictionary |-> dictionary,
                       term |-> term, meaning |-> meaning]
       IN Handle(command, runHandler(workspace, command, env))

HandleReplace ==
  /\ Idle
  /\ \E dictionary \in RawDictionaryNames, term \in RawTerms,
        meanings \in HandlerMeaningLists, env \in Environments :
       LET command == [kind |-> "replace", dictionary |-> dictionary,
                       term |-> term, meanings |-> meanings]
       IN Handle(command, runHandler(workspace, command, env))

HandleExamplesAdd ==
  /\ Idle
  /\ \E term \in RawTerms, example \in RawExamples, env \in Environments :
       LET command == [kind |-> "examples.add", term |-> term,
                       example |-> example]
       IN Handle(command, runHandler(workspace, command, env))

HandleExamplesGenerate ==
  /\ Idle
  /\ \E term \in RawTerms, countInput \in CountInputs,
        config \in {succeed("config"), failFileIO},
        generator \in {failAi, succeed(<<<<"e">>>>)}, env \in Environments :
       LET command == [kind |-> "examples.generate", term |-> term,
                       countInput |-> countInput]
       IN Handle(command,
                 runHandler(workspace, command,
                            [env EXCEPT !.config = config,
                                        !.generator = generator]))

HandleTest ==
  /\ Idle
  /\ \E modeInput \in TestModes \cup {"other"}, countInput \in CountInputs,
        entryRng \in {fraction(0, 1), fraction(1, 2)}, answer \in {"y", "n"},
        env \in Environments :
       LET command == [kind |-> "test", modeInput |-> modeInput,
                       countInput |-> countInput]
       IN Handle(command,
                 runHandler(workspace, command,
                            [env EXCEPT !.entryRng = entryRng,
                                        !.answer = answer]))

HandlerNext ==
  \/ Continue
  \/ HandleInit
  \/ HandleDictionaryNew
  \/ HandleDictionarySwitch
  \/ HandleDictionaryClear
  \/ HandleAdd
  \/ HandleRemove
  \/ HandleReplace
  \/ HandleExamplesAdd
  \/ HandleExamplesGenerate
  \/ HandleTest

HandlerSpec == Init /\ [][HandlerNext]_vars

(***************************************************************************)
(* Vocabulary of the properties.                                           *)
(***************************************************************************)
Called(op) == last.op = op

Succeeded == ~Idle /\ last.result.type = "Success"

FailedWith(kind) ==
  ~Idle /\ last.result.type = "Failure" /\ last.result.kind = kind

HasTerm(entries, term) == \E i \in 1..Len(entries) : entries[i].term = term

\* The entries stored under a term, as a set of positions.
PositionsOf(entries, term) == {i \in 1..Len(entries) : entries[i].term = term}

\* The entry stored under a term that occurs exactly once.
EntryOf(entries, term) ==
  entries[CHOOSE i \in 1..Len(entries) : entries[i].term = term]

\* The entries with the given term left out, order kept.
RECURSIVE Without(_, _)
Without(entries, term) ==
  IF entries = <<>> THEN <<>>
  ELSE IF Head(entries).term = term
    THEN Without(Tail(entries), term)
    ELSE <<Head(entries)>> \o Without(Tail(entries), term)

\* A sequence with every occurrence of x left out, order kept.
RECURSIVE Remaining(_, _)
Remaining(seq, x) ==
  IF seq = <<>> THEN <<>>
  ELSE IF Head(seq) = x
    THEN Remaining(Tail(seq), x)
    ELSE <<Head(seq)>> \o Remaining(Tail(seq), x)

Occurs(seq, x) == \E i \in 1..Len(seq) : seq[i] = x

(***************************************************************************)
(* C1: in every state reached from the empty entry list by commands, no    *)
(* two entries have the same term.                                         *)
(***************************************************************************)
C1_UniqueTerms ==
  \A i, j \in 1..Len(state.entries) :
    i # j => state.entries[i].term # state.entries[j].term

\* A meaning was added to a term that was already stored, next to another
\* entry.
C1_Witness ==
  /\ Called("addEntryMeanings")
  /\ Succeeded
  /\ last.input.meanings # <<>>
  /\ HasTerm(last.pre.entries, last.input.term)
  /\ Len(state.entries) = 2

(***************************************************************************)
(* C2: through the application commands, whose inputs pass parseTerm,      *)
(* parseMeaning and parseMeanings, every stored entry has at least one     *)
(* meaning.                                                                *)
(***************************************************************************)
C2_MeaningsNonEmpty ==
  \A i \in 1..Len(state.entries) : Len(state.entries[i].meanings) >= 1

\* The only meaning of an entry was removed by name, and the entry is gone.
C2_Witness ==
  /\ Called("removeEntry")
  /\ Succeeded
  /\ last.input.meaning # Undefined
  /\ Len(state.entries) < Len(last.pre.entries)

(***************************************************************************)
(* C3: addEntryMeanings with a non-empty list of meanings (one upsertEntry *)
(* per meaning) succeeds and leaves exactly one entry for the term: a new  *)
(* term gets the supplied meanings in call order, duplicates kept, and     *)
(* score 0; an existing term gets its old meanings followed by the         *)
(* supplied ones, its score and examples unchanged.                        *)
(***************************************************************************)
C3_UpsertConcatenates ==
  (Called("addEntryMeanings") /\ last.input.meanings # <<>>) =>
    /\ Succeeded
    /\ LET term == last.input.term
           before == last.pre.entries
           after == last.result.value.state.entries
       IN /\ Cardinality(PositionsOf(after, term)) = 1
          /\ IF HasTerm(before, term)
               THEN /\ EntryOf(after, term).meanings =
                         EntryOf(before, term).meanings \o last.input.meanings
                    /\ EntryOf(after, term).score = EntryOf(before, term).score
                    /\ EntryOf(after, term).examples =
                         EntryOf(before, term).examples
               ELSE /\ EntryOf(after, term).meanings = last.input.meanings
                    /\ EntryOf(after, term).score = 0

\* The same meaning was added twice in one call to a term already stored.
C3_Witness ==
  /\ Called("addEntryMeanings")
  /\ Succeeded
  /\ HasTerm(last.pre.entries, last.input.term)
  /\ Len(last.input.meanings) = 2
  /\ last.input.meanings[1] = last.input.meanings[2]

(***************************************************************************)
(* C4: removing by name the only meaning of an entry succeeds and returns  *)
(* the entry list that removing the whole term returns: the term is gone,  *)
(* findEntry fails with not-found, every other entry is unchanged.         *)
(***************************************************************************)
C4_LastMeaningDeletes ==
  (/\ Called("removeEntry")
   /\ last.input.meaning # Undefined
   /\ HasTerm(last.pre.entries, last.input.term)
   /\ EntryOf(last.pre.entries, last.input.term).meanings = last.input.meaning)
  =>
    /\ Succeeded
    /\ LET term == last.input.term
           after == last.result.value.state.entries
           whole == removeEntry(last.pre, term, Undefined)
       IN /\ isSuccess(whole)
          /\ after = whole.value.state.entries
          /\ ~HasTerm(after, term)
          /\ findEntry(after, term) = failNotFound
          /\ after = Without(last.pre.entries, term)

\* The only meaning of one of two stored entries was removed by name.
C4_Witness ==
  /\ Called("removeEntry")
  /\ Succeeded
  /\ last.input.meaning # Undefined
  /\ HasTerm(last.pre.entries, last.input.term)
  /\ EntryOf(last.pre.entries, last.input.term).meanings = last.input.meaning
  /\ Len(last.pre.entries) = 2

(***************************************************************************)
(* C5: removeEntry fails with not-found, and the state stays as it was,    *)
(* when the term is absent (with or without a meaning) or the meaning is   *)
(* not among the entry's meanings; when the meaning is present and others  *)
(* remain, it succeeds and the entry keeps the other meanings in order.    *)
(***************************************************************************)
C5_RemoveNotFoundOrPartial ==
  Called("removeEntry") =>
    LET term == last.input.term
        before == last.pre.entries
        present == HasTerm(before, term)
        named == last.input.meaning # Undefined
    IN /\ ~present => (FailedWith("not-found") /\ state = last.pre)
       /\ (present /\ named
             /\ ~Occurs(EntryOf(before, term).meanings, last.input.meaning[1]))
          => (FailedWith("not-found") /\ state = last.pre)
       /\ (present /\ named
             /\ Occurs(EntryOf(before, term).meanings, last.input.meaning[1])
             /\ Remaining(EntryOf(before, term).meanings,
                          last.input.meaning[1]) # <<>>)
          => /\ Succeeded
             /\ HasTerm(last.result.value.state.entries, term)
             /\ EntryOf(last.result.value.state.entries, term).meanings =
                  Remaining(EntryOf(before, term).meanings,
                            last.input.meaning[1])

\* One of two different meanings of an entry was removed.
C5_Witness ==
  /\ Called("removeEntry")
  /\ Succeeded
  /\ last.input.meaning # Undefined
  /\ HasTerm(state.entries, last.input.term)
  /\ Len(EntryOf(last.pre.entries, last.input.term).meanings) = 2
  /\ Len(EntryOf(state.entries, last.input.term).meanings) = 1

(***************************************************************************)
(* C6: every stored score is an integer >= 0, whatever the commands,       *)
(* and forgetEntry on a score of 0 leaves it at 0.                         *)
(***************************************************************************)
C6_ScoreNonNegative ==
  /\ \A i \in 1..Len(state.entries) :
       state.entries[i].score \in Int /\ state.entries[i].score >= 0
  /\ (/\ Called("forgetEntry")
      /\ Succeeded
      /\ EntryOf(last.pre.entries, last.input.term).score = 0)
     => EntryOf(last.result.value.state.entries, last.input.term).score = 0

\* forgetEntry was applied to an entry whose score was 0.
C6_Witness ==
  /\ Called("forgetEntry")
  /\ Succeeded
  /\ EntryOf(last.pre.entries, last.input.term).score = 0

(***************************************************************************)
(* C7: rememberEntry on a stored entry of score s returns a state where    *)
(* it has score s + 1, forgetEntry one where it has max(0, s - 1); on an   *)
(* absent term both fail with not-found and the state stays as it was.     *)
(***************************************************************************)
C7_RememberForgetScore ==
  (Called("rememberEntry") \/ Called("forgetEntry")) =>
    LET term == last.input.term
        before == last.pre.entries
    IN IF HasTerm(before, term)
         THEN /\ Succeeded
              /\ LET s == EntryOf(before, term).score
                     after == EntryOf(last.result.value.state.entries,
                                      term).score
                 IN IF Called("rememberEntry")
                      THEN after = s + 1
                      ELSE after = IF s - 1 > 0 THEN s - 1 ELSE 0
         ELSE FailedWith("not-found") /\ state = last.pre

\* rememberEntry was applied to an entry that had already been remembered.
C7_Witness ==
  /\ Called("rememberEntry")
  /\ Succeeded
  /\ EntryOf(last.pre.entries, last.input.term).score >= 1

(***************************************************************************)
(* Vocabulary of the selection properties.                                 *)
(***************************************************************************)
\* The entries whose term is not in usedTerms, in state order.
RECURSIVE Unused(_, _)
Unused(entries, usedTerms) ==
  IF entries = <<>> THEN <<>>
  ELSE IF Head(entries).term \in usedTerms
    THEN Unused(Tail(entries), usedTerms)
    ELSE <<Head(entries)>> \o Unused(Tail(entries), usedTerms)

\* The weights 1/(score+1) of a list over their common denominator, the
\* product of all score+1: entry i weighs the product of the others.
RECURSIVE ProductOfDenominators(_, _)
ProductOfDenominators(entries, skip) ==
  IF entries = <<>> THEN 1
  ELSE (IF skip = 1 THEN 1 ELSE Head(entries).score + 1)
       * ProductOfDenominators(Tail(entries), skip - 1)

RECURSIVE CumulativeWeight(_, _)
CumulativeWeight(entries, i) ==
  IF i = 0 THEN 0
  ELSE ProductOfDenominators(entries, i) + CumulativeWeight(entries, i - 1)

\* cumulative weight up to i >= pick, with pick = (rng.num/rng.den) * total.
ReachesPick(entries, i, rng) ==
  CumulativeWeight(entries, i) * rng.den
    >= rng.num * CumulativeWeight(entries, Len(entries))

(***************************************************************************)
(* C8: selectMeaningTestEntry never returns an entry whose term is in      *)
(* usedTerms, for any state, any usedTerms and any rng value.              *)
(***************************************************************************)
C8_NeverSelectsUsedTerm ==
  (Called("selectMeaningTestEntry") /\ Succeeded
     /\ last.result.value # Undefined)
  => last.result.value[1].entry.term \notin last.input.usedTerms

\* A selection was made while the term of another stored entry was in use.
C8_Witness ==
  /\ Called("selectMeaningTestEntry")
  /\ Succeeded
  /\ last.result.value # Undefined
  /\ \E i \in 1..Len(state.entries) :
       state.entries[i].term \in last.input.usedTerms

(***************************************************************************)
(* C9: selectMeaningTestEntry always returns Success; its value is null    *)
(* exactly when every stored term is in usedTerms (also when nothing is    *)
(* stored), and a selection otherwise.                                     *)
(***************************************************************************)
C9_NullIffExhausted ==
  Called("selectMeaningTestEntry") =>
    /\ Succeeded
    /\ (last.result.value = Undefined) <=>
         (\A i \in 1..Len(last.pre.entries) :
            last.pre.entries[i].term \in last.input.usedTerms)
    /\ last.result.value # Undefined =>
         /\ Len(last.result.value) = 1
         /\ \E i \in 1..Len(last.pre.entries) :
              last.result.value[1] = [entry |-> last.pre.entries[i]]

\* Every stored term was in use and null came back.
C9_Witness ==
  /\ Called("selectMeaningTestEntry")
  /\ Succeeded
  /\ last.result.value = Undefined
  /\ Len(last.pre.entries) = 2

(***************************************************************************)
(* C10: with eligible entries e1..en in state order and r in [0,1], the    *)
(* chosen entry is the first ei with weight(e1)+...+weight(ei) >= r*total, *)
(* weight(e) = 1/(score(e)+1); it is one of the eligible entries, and      *)
(* r = 0 chooses the first eligible entry.                                 *)
(***************************************************************************)
C10_FirstReachingPick ==
  (Called("selectMeaningTestEntry")
     /\ Unused(last.pre.entries, last.input.usedTerms) # <<>>)
  =>
    LET eligible == Unused(last.pre.entries, last.input.usedTerms)
        rng == last.input.rng
        first == CHOOSE i \in 1..Len(eligible) :
                   /\ ReachesPick(eligible, i, rng)
                   /\ \A j \in 1..(i - 1) : ~ReachesPick(eligible, j, rng)
    IN /\ Succeeded
       /\ last.result.value # Undefined
       /\ \E i \in 1..Len(eligible) : ReachesPick(eligible, i, rng)
       /\ last.result.value[1].entry = eligible[first]
       /\ \E i \in 1..Len(eligible) : last.result.value[1].entry = eligible[i]
       /\ rng.num = 0 => last.result.value[1].entry = eligible[1]

\* The second of two eligible entries with different scores was chosen.
C10_Witness ==
  /\ Called("selectMeaningTestEntry")
  /\ Succeeded
  /\ last.result.value # Undefined
  /\ LET eligible == Unused(last.pre.entries, last.input.usedTerms)
     IN /\ Len(eligible) = 2
        /\ eligible[1].score # eligible[2].score
        /\ last.result.value[1].entry = eligible[2]

(***************************************************************************)
(* C11: the weight 1/(score+1) of every entry lies in (0, 1] and is        *)
(* strictly larger for a strictly lower score; for every non-empty         *)
(* eligible list and every entry e of it some r in [0,1) chooses e, and    *)
(* the pick values that choose e are those above the cumulative weight     *)
(* before e up to the cumulative weight with e, a range of width           *)
(* weight(e).                                                              *)
(***************************************************************************)
\* pick = (rng.num/rng.den) * total lies in the range of entry i.
InPickRange(entries, i, rng) ==
  /\ ReachesPick(entries, i, rng)
  /\ i > 1 => ~ReachesPick(entries, i - 1, rng)

\* The rng value whose pick is the middle of the range of entry i.
MiddleOfRange(entries, i) ==
  fraction(CumulativeWeight(entries, i - 1) + CumulativeWeight(entries, i),
           2 * CumulativeWeight(entries, Len(entries)))

\* The rng value whose pick is the cumulative weight up to entry i.
EndOfRange(entries, i) ==
  fraction(CumulativeWeight(entries, i),
           CumulativeWeight(entries, Len(entries)))

Chooses(usedTerms, rng, entry) ==
  selectMeaningTestEntry(state, usedTerms, rng)
    = succeed(Some([entry |-> entry]))

C11_WeightRanges ==
  /\ \A i \in 1..Len(state.entries) :
       LET entry == state.entries[i]
       IN /\ weight(entry) > 0
          /\ weight(entry) <= weightScale
          /\ weight(entry) * (entry.score + 1) = weightScale
          /\ \A j \in 1..Len(state.entries) :
               entry.score < state.entries[j].score
                 => weight(entry) > weight(state.entries[j])
  /\ \A usedTerms \in (IF Idle THEN SUBSET Terms ELSE {}) :
       LET eligible == Unused(state.entries, usedTerms)
       IN \A i \in 1..Len(eligible) :
            /\ MiddleOfRange(eligible, i).num < MiddleOfRange(eligible, i).den
            /\ Chooses(usedTerms, MiddleOfRange(eligible, i), eligible[i])
            /\ Chooses(usedTerms, EndOfRange(eligible, i), eligible[i])
            /\ i > 1 =>
                 Chooses(usedTerms, EndOfRange(eligible, i - 1), eligible[i - 1])
            /\ (CumulativeWeight(eligible, i) - CumulativeWeight(eligible, i - 1))
                 * weightScale
               = weight(eligible[i]) * ProductOfDenominators(eligible, 0)
  /\ (Called("selectMeaningTestEntry")
        /\ Unused(last.pre.entries, last.input.usedTerms) # <<>>)
     => LET eligible == Unused(last.pre.entries, last.input.usedTerms)
        IN \A i \in 1..Len(eligible) :
             (last.result = succeed(Some([entry |-> eligible[i]])))
               <=> InPickRange(eligible, i, last.input.rng)

\* With r < 1 in the middle of its range, the second of two eligible entries
\* was chosen, the one with the higher score and so the narrower range.
C11_Witness ==
  /\ Called("selectMeaningTestEntry")
  /\ Succeeded
  /\ last.input.rng.num < last.input.rng.den
  /\ LET eligible == Unused(last.pre.entries, last.input.usedTerms)
     IN /\ Len(eligible) = 2
        /\ eligible[1].score < eligible[2].score
        /\ last.input.rng.num * MiddleOfRange(eligible, 2).den
             = MiddleOfRange(eligible, 2).num * last.input.rng.den
        /\ last.result.value = Some([entry |-> eligible[2]])

(***************************************************************************)
(* C12: a non-null selection of selectExampleTestEntry holds an entry of   *)
(* the state and one of that entry's examples, not in usedExamples: the    *)
(* one at index floor(r * k) of the entry's k unused examples in stored    *)
(* order, r being the second rng draw.  An entry without examples, or with *)
(* all of them in usedExamples, is never selected.                         *)
(***************************************************************************)
\* The examples of a list that are not in usedExamples, in stored order.
RECURSIVE UnusedExamples(_, _)
UnusedExamples(examples, usedExamples) ==
  IF examples = <<>> THEN <<>>
  ELSE IF Head(examples) \in usedExamples
    THEN UnusedExamples(Tail(examples), usedExamples)
    ELSE <<Head(examples)>> \o UnusedExamples(Tail(examples), usedExamples)

\* The stored examples of an entry, none when the field is absent.
StoredExamples(entry) ==
  IF entry.examples = Undefined THEN <<>> ELSE entry.examples[1]

\* n = floor(r * k) for r = rng.num/rng.den.
IsFloorOf(n, rng, k) ==
  /\ n * rng.den <= rng.num * k
  /\ rng.num * k < (n + 1) * rng.den

C12_ExampleSelection ==
  (Called("selectExampleTestEntry") /\ Succeeded
     /\ last.result.value # Undefined)
  =>
    LET selection == last.result.value[1]
        usedExamples == last.input.usedExamples
        unused == UnusedExamples(StoredExamples(selection.entry), usedExamples)
    IN /\ \E i \in 1..Len(last.pre.entries) :
            selection.entry = last.pre.entries[i]
       /\ Occurs(StoredExamples(selection.entry), selection.example)
       /\ selection.example \notin usedExamples
       /\ unused # <<>>
       /\ \E n \in 0..(Len(unused) - 1) :
            /\ IsFloorOf(n, last.input.exampleRng, Len(unused))
            /\ selection.example = unused[n + 1]

\* The second of two unused examples was selected with r < 1.
C12_Witness ==
  /\ Called("selectExampleTestEntry")
  /\ Succeeded
  /\ last.result.value # Undefined
  /\ LET selection == last.result.value[1]
         unused == UnusedExamples(StoredExamples(selection.entry),
                                  last.input.usedExamples)
     IN /\ Len(unused) = 2
        /\ selection.example = unused[2]
        /\ last.input.exampleRng.num < last.input.exampleRng.den

(***************************************************************************)
(* C13: when generateExamples succeeds, the entry stored under the term in *)
(* the returned state has exactly the generator's list as its examples,    *)
(* the previous examples being discarded, and the term, meanings and score *)
(* of the entry of the input state.                                        *)
(***************************************************************************)
C13_GeneratedExamplesOverwrite ==
  (Called("generateExamples") /\ Succeeded)
  =>
    LET term == last.input.term
        before == EntryOf(last.pre.entries, term)
        after == EntryOf(last.result.value.state.entries, term)
    IN /\ HasTerm(last.pre.entries, term)
       /\ Cardinality(PositionsOf(last.result.value.state.entries, term)) = 1
       /\ after.examples = Some(last.input.generator.value)
       /\ after.term = before.term
       /\ after.meanings = before.meanings
       /\ after.score = before.score
       /\ last.result.value.entry = after
       /\ state = last.result.value.state

\* An entry with a raised score and an example got one different example.
C13_Witness ==
  /\ Called("generateExamples")
  /\ Succeeded
  /\ LET before == EntryOf(last.pre.entries, last.input.term)
     IN /\ before.score > 0
        /\ before.examples # Undefined
        /\ Len(before.examples[1]) = 1
        /\ Len(last.input.generator.value) = 1
        /\ before.examples[1] # last.input.generator.value

(***************************************************************************)
(* C14: generateExamples yields no new state on failure.  For an absent    *)
(* term it returns not-found and the generator is never called; a Failure  *)
(* of the generator is returned as it is; in both cases the state and the  *)
(* stored entry stay as they were.                                         *)
(***************************************************************************)
C14_GenerateFailureKeepsState ==
  Called("generateExamples") =>
    /\ ~HasTerm(last.pre.entries, last.input.term) =>
         /\ FailedWith("not-found")
         /\ last.generatorCalls = <<>>
    /\ (HasTerm(last.pre.entries, last.input.term)
          /\ isFailure(last.input.generator)) =>
         /\ last.result = last.input.generator
         /\ Len(last.generatorCalls) = 1
    /\ ~Succeeded =>
         /\ state = last.pre
         /\ \/ ~HasTerm(last.pre.entries, last.input.term)
            \/ isFailure(last.input.generator)
    /\ Succeeded => Len(last.generatorCalls) = 1

\* The generator failed for a stored term that has an example.
C14_Witness ==
  /\ Called("generateExamples")
  /\ FailedWith("ai-failed")
  /\ HasTerm(state.entries, last.input.term)
  /\ EntryOf(state.entries, last.input.term).examples # Undefined
  /\ Len(state.entries) = 2

(***************************************************************************)
(* C15: replaceEntryInAppState, and replaceEntry on the entry list, fail   *)
(* with not-found for an absent term and insert nothing; for a stored term *)
(* replaceEntryInAppState puts, at the term's position, an entry with      *)
(* exactly the given meanings and the score the entry had before.          *)
(***************************************************************************)
C15_ReplaceNeverInserts ==
  /\ Called("replaceEntryInAppState") =>
       LET term == last.input.term
       IN IF ~HasTerm(last.pre.entries, term)
            THEN /\ FailedWith("not-found")
                 /\ state = last.pre
            ELSE /\ Succeeded
                 /\ Len(state.entries) = Len(last.pre.entries)
                 /\ \A i \in 1..Len(state.entries) :
                      IF last.pre.entries[i].term = term
                        THEN /\ state.entries[i].term = term
                             /\ state.entries[i].meanings = last.input.meanings
                             /\ state.entries[i].score = last.pre.entries[i].score
                             /\ last.result.value.entry = state.entries[i]
                        ELSE state.entries[i] = last.pre.entries[i]
  /\ \A term \in (IF Idle THEN Terms ELSE {}), meanings \in MeaningLists :
       LET entry == [term |-> term, meanings |-> meanings,
                     examples |-> Undefined, score |-> 0]
           replaced == replaceEntry(state.entries, entry)
       IN IF ~HasTerm(state.entries, term)
            THEN replaced = failNotFound
            ELSE /\ isSuccess(replaced)
                 /\ Len(replaced.value.entries) = Len(state.entries)
                 /\ \A i \in 1..Len(state.entries) :
                      replaced.value.entries[i] =
                        IF state.entries[i].term = term
                          THEN entry
                          ELSE state.entries[i]

\* The second entry, with a raised score, got other meanings.
C15_Witness ==
  /\ Called("replaceEntryInAppState")
  /\ Succeeded
  /\ Len(state.entries) = 2
  /\ last.pre.entries[2].term = last.input.term
  /\ last.pre.entries[2].score > 0
  /\ last.pre.entries[2].meanings # last.input.meanings
  /\ state.entries[2].score = last.pre.entries[2].score

(***************************************************************************)
(* C16: the application's addEntryMeanings is all-or-nothing.  If the term *)
(* trims to empty, the list of meanings is empty or one of the meanings    *)
(* trims to empty, it returns invalid-input and no meaning is added;       *)
(* otherwise every supplied meaning is added, trimmed and in order.        *)
(***************************************************************************)
\* Nothing but whitespace.
IsBlank(value) == \A i \in 1..Len(value) : value[i] \in Whitespace

\* trimmed is value without its leading and trailing whitespace.
IsTrimOf(trimmed, value) ==
  \E i \in 1..(Len(value) + 1), j \in 0..Len(value) :
    /\ trimmed = SubSeq(value, i, j)
    /\ \A k \in 1..(i - 1) : value[k] \in Whitespace
    /\ \A k \in (j + 1)..Len(value) : value[k] \in Whitespace
    /\ trimmed # <<>> =>
         (trimmed[1] \notin Whitespace /\ trimmed[Len(trimmed)] \notin Whitespace)

C16_AddMeaningsAllOrNothing ==
  Called("addEntryMeanings") =>
    LET termInput == last.input.term
        meaningsInput == last.input.meanings
    IN IF \/ IsBlank(termInput)
          \/ meaningsInput = <<>>
          \/ \E k \in 1..Len(meaningsInput) : IsBlank(meaningsInput[k])
         THEN /\ FailedWith("invalid-input")
              /\ state = last.pre
         ELSE /\ Succeeded
              /\ \E i \in 1..Len(state.entries) :
                   LET after == state.entries[i]
                       old == IF HasTerm(last.pre.entries, after.term)
                                THEN EntryOf(last.pre.entries, after.term).meanings
                                ELSE <<>>
                   IN /\ IsTrimOf(after.term, termInput)
                      /\ Len(after.meanings) = Len(old) + Len(meaningsInput)
                      /\ SubSeq(after.meanings, 1, Len(old)) = old
                      /\ \A k \in 1..Len(meaningsInput) :
                           IsTrimOf(after.meanings[Len(old) + k], meaningsInput[k])
                      /\ \A j \in 1..Len(state.entries) :
                           j # i => state.entries[j] \in
                                      {last.pre.entries[n] :
                                         n \in 1..Len(last.pre.entries)}

\* A valid term with a valid meaning followed by a blank one was rejected
\* while the term was stored with another meaning.
C16_Witness ==
  /\ Called("addEntryMeanings")
  /\ FailedWith("invalid-input")
  /\ ~IsBlank(last.input.term)
  /\ Len(last.input.meanings) = 2
  /\ ~IsBlank(last.input.meanings[1])
  /\ IsBlank(last.input.meanings[2])
  /\ \E i \in 1..Len(state.entries) :
       IsTrimOf(state.entries[i].term, last.input.term)
  /\ state = last.pre

(***************************************************************************)
(* Vocabulary of the session properties.                                   *)
(***************************************************************************)
NoDuplicates(seq) ==
  \A i \in 1..Len(seq), j \in 1..Len(seq) : seq[i] = seq[j] => i = j

PresentedTerms ==
  [i \in 1..Len(last.session.presented) |-> last.session.presented[i].entry.term]

PresentedExamples ==
  [i \in 1..Len(last.session.presented) |-> last.session.presented[i].example]

Min(a, b) == IF a <= b THEN a ELSE b

\* The example strings stored in a list of entries.
RECURSIVE ExampleStrings(_)
ExampleStrings(entries) ==
  IF entries = <<>> THEN {}
  ELSE {StoredExamples(Head(entries))[i] :
          i \in 1..Len(StoredExamples(Head(entries)))}
       \cup ExampleStrings(Tail(entries))

(***************************************************************************)
(* C17: within one runTestSession in meanings mode no term is presented    *)
(* more than once, whatever the answers and the rng values.                *)
(***************************************************************************)
C17_NoTermTwice ==
  (Called("runTestSession") /\ last.input.mode = "meanings")
  => NoDuplicates(PresentedTerms)

\* Two terms were presented and answered, one with y and one with n.
C17_Witness ==
  /\ Called("runTestSession")
  /\ last.input.mode = "meanings"
  /\ last.session.pc = "returned"
  /\ Len(last.session.presented) = 2
  /\ last.session.asked = 2
  /\ last.input.count = 3
  /\ \E i, j \in 1..2 :
       /\ last.session.testState.entries[i].score
            > last.pre.entries[i].score
       /\ last.session.testState.entries[j].score
            = last.pre.entries[j].score

(***************************************************************************)
(* C18: runTestSession in meanings mode asks at most count questions and   *)
(* returns Success with asked = min(count, number of entries of the        *)
(* state); running out of unused terms ends it early and is no error.      *)
(***************************************************************************)
C18_AskedIsMinimum ==
  (Called("runTestSession") /\ last.input.mode = "meanings")
  =>
    LET session == last.session
    IN /\ session.asked <= last.input.count
       /\ Len(session.presented) <= last.input.count
       /\ session.asked <= Len(last.pre.entries)
       /\ session.pc = "returned" =>
            /\ session.result =
                 Some(succeed([state |-> session.testState,
                               asked |-> Min(last.input.count,
                                             Len(last.pre.entries))]))
            /\ session.asked = Len(session.presented)
            /\ session.closed
            /\ Len(session.testState.entries) = Len(last.pre.entries)
            /\ \A i \in 1..Len(last.pre.entries) :
                 session.testState.entries[i].term = last.pre.entries[i].term

\* A session of three questions over a single entry returned after one.
C18_Witness ==
  /\ Called("runTestSession")
  /\ last.input.mode = "meanings"
  /\ last.input.count = 3
  /\ Len(last.pre.entries) = 1
  /\ last.session.pc = "returned"
  /\ last.session.result # Undefined
  /\ isSuccess(last.session.result[1])
  /\ last.session.result[1].value.asked = 1

(***************************************************************************)
(* C19: within one runTestSession in examples mode no example string is    *)
(* presented more than once, while a term may be presented once for each   *)
(* of its unused examples; the questions asked exceed neither count nor    *)
(* the number of distinct example strings of the state.                    *)
(***************************************************************************)
C19_NoExampleTwice ==
  (Called("runTestSession") /\ last.input.mode = "examples")
  =>
    LET session == last.session
        distinct == Cardinality(ExampleStrings(last.pre.entries))
    IN /\ NoDuplicates(PresentedExamples)
       /\ \A i \in 1..Len(session.presented) :
            /\ session.presented[i].example \in ExampleStrings(last.pre.entries)
            /\ Occurs(StoredExamples(session.presented[i].entry),
                      session.presented[i].example)
       /\ session.asked <= last.input.count
       /\ session.asked <= distinct
       /\ Len(session.presented) <= last.input.count
       /\ Len(session.presented) <= distinct
       /\ session.pc = "returned" =>
            /\ session.result # Undefined
            /\ isSuccess(session.result[1])
            /\ session.result[1].value.asked = session.asked

\* One term was presented twice, with two different examples.
C19_Witness ==
  /\ Called("runTestSession")
  /\ last.input.mode = "examples"
  /\ last.session.pc = "returned"
  /\ last.session.asked = 2
  /\ Len(last.session.presented) = 2
  /\ last.session.presented[1].entry.term = last.session.presented[2].entry.term
  /\ last.session.presented[1].example # last.session.presented[2].example

(***************************************************************************)
(* C20: the CLI layer keeps one writer per load-mutate-save cycle: when    *)
(* two command invocations against the same dictionary overlap, no         *)
(* invocation saves a state computed from what it loaded before the        *)
(* other's save, and so no update is lost: a save of add, examples         *)
(* generate or test, which remove nothing, keeps every stored term.        *)
(***************************************************************************)
Saved == last # NoCall /\ last.saved

C20_NoLostUpdate ==
  Saved =>
    /\ ~last.stale
    /\ last.dropped = {}

\* examples generate saved what it had loaded before an add was saved, and
\* the added term is no longer in the file.
C20_Witness ==
  /\ Saved
  /\ last.op = "examples.generate"
  /\ last.stale
  /\ last.dropped # {}
  /\ \A term \in last.dropped : ~HasTerm(state.entries, term)

\* The terms of an entry list, in list order.
TermsOf(entries) == [i \in 1..Len(entries) |-> entries[i].term]

(***************************************************************************)
(* C24: entries stay in insertion order.  A command that stores a new term *)
(* appends it at the end; a command on a stored term (more meanings,       *)
(* replace, examples, score) keeps every term at its index; a removal that *)
(* deletes the entry leaves exactly the other entries, in their order.     *)
(* The same holds for upsertEntry, replaceEntry and deleteEntry on the     *)
(* entry list.                                                             *)
(***************************************************************************)
C24_InsertionOrder ==
  /\ (Called("addEntryMeanings") /\ Succeeded) =>
       LET term == last.input.term
       IN IF HasTerm(last.pre.entries, term) \/ last.input.meanings = <<>>
            THEN TermsOf(state.entries) = TermsOf(last.pre.entries)
            ELSE /\ Len(state.entries) = Len(last.pre.entries) + 1
                 /\ state.entries[Len(state.entries)].term = term
                 /\ SubSeq(state.entries, 1, Len(last.pre.entries))
                      = last.pre.entries
  /\ (/\ last.op \in {"addEntryExample", "replaceEntryInAppState",
                      "generateExamples", "rememberEntry", "forgetEntry"}
      /\ Succeeded) =>
       TermsOf(state.entries) = TermsOf(last.pre.entries)
  /\ (Called("removeEntry") /\ Succeeded) =>
       LET term == last.input.term
       IN IF HasTerm(state.entries, term)
            THEN TermsOf(state.entries) = TermsOf(last.pre.entries)
            ELSE state.entries = Without(last.pre.entries, term)
  /\ \A term \in (IF Idle THEN Terms ELSE {}) :
       LET entries == state.entries
           deleted == deleteEntry(entries, term)
       IN /\ \A meaning \in Meanings :
               LET upserted == upsertEntry(entries, term, meaning).value.entries
               IN IF HasTerm(entries, term)
                    THEN TermsOf(upserted) = TermsOf(entries)
                    ELSE /\ SubSeq(upserted, 1, Len(entries)) = entries
                         /\ TermsOf(upserted) = Append(TermsOf(entries), term)
          /\ HasTerm(entries, term) =>
               /\ isSuccess(deleted)
               /\ deleted.value.entries = Without(entries, term)
               /\ Len(deleted.value.entries) = Len(entries) - 1

\* Two terms were added one behind the other, and the first was removed,
\* leaving the second.
C24_Witness ==
  /\ Called("removeEntry")
  /\ Succeeded
  /\ Len(last.pre.entries) = 2
  /\ last.pre.entries[1].term = last.input.term
  /\ state.entries = <<last.pre.entries[2]>>

(***************************************************************************)
(* C27: removeEntry(state, t, m) takes every occurrence of m out of t's    *)
(* meanings.  After a successful call t is either no longer stored or its  *)
(* entry does not contain m; an entry whose meanings are all equal to m,   *)
(* however many times, is deleted by the one call.                         *)
(***************************************************************************)
C27_RemovesEveryOccurrence ==
  (Called("removeEntry") /\ last.input.meaning # Undefined) =>
    LET term == last.input.term
        meaning == last.input.meaning[1]
    IN /\ Succeeded =>
            \/ ~HasTerm(state.entries, term)
            \/ \A i \in PositionsOf(state.entries, term) :
                 ~Occurs(state.entries[i].meanings, meaning)
       /\ \A i \in PositionsOf(last.pre.entries, term) :
            (/\ last.pre.entries[i].meanings # <<>>
             /\ \A k \in 1..Len(last.pre.entries[i].meanings) :
                  last.pre.entries[i].meanings[k] = meaning)
              => /\ Succeeded
                 /\ ~HasTerm(state.entries, term)
                 /\ state.entries = Without(last.pre.entries, term)

\* The meaning was stored twice under the term, and one removal deleted the
\* entry.
C27_Witness ==
  /\ Called("removeEntry")
  /\ Succeeded
  /\ last.input.meaning # Undefined
  /\ HasTerm(last.pre.entries, last.input.term)
  /\ EntryOf(last.pre.entries, last.input.term).meanings
       = <<last.input.meaning[1], last.input.meaning[1]>>
  /\ ~HasTerm(state.entries, last.input.term)

(***************************************************************************)
(* C28: replaceEntryInAppState called without examples stores an entry     *)
(* with no examples, whatever examples the entry had, and keeps its score. *)
(* The same holds for the application's replaceEntry without examples,     *)
(* which is how the CLI replace command calls it.                          *)
(***************************************************************************)
C28_ReplaceDiscardsExamples ==
  /\ (/\ Called("replaceEntryInAppState")
      /\ Succeeded
      /\ last.input.examples = Undefined) =>
       LET term == last.input.term
       IN /\ HasTerm(state.entries, term)
          /\ EntryOf(state.entries, term).examples = Undefined
          /\ last.result.value.entry.examples = Undefined
          /\ EntryOf(state.entries, term).score
               = EntryOf(last.pre.entries, term).score
  /\ \A termInput \in (IF Idle THEN RawTerms ELSE {}),
        meaningsInput \in RawMeaningLists :
       LET result == appReplaceEntry(state, termInput, meaningsInput, Undefined)
           term == trim(termInput)
       IN isSuccess(result) =>
            /\ EntryOf(result.value.state.entries, term).examples = Undefined
            /\ EntryOf(result.value.state.entries, term).score
                 = EntryOf(state.entries, term).score

\* An entry with an example and a raised score was replaced without
\* examples.
C28_Witness ==
  /\ Called("replaceEntryInAppState")
  /\ Succeeded
  /\ last.input.examples = Undefined
  /\ EntryOf(last.pre.entries, last.input.term).examples # Undefined
  /\ EntryOf(last.pre.entries, last.input.term).examples[1] # <<>>
  /\ EntryOf(last.pre.entries, last.input.term).score > 0
  /\ EntryOf(state.entries, last.input.term).examples = Undefined

(***************************************************************************)
(* C29: every core command that returns {state, entry} returns the entry   *)
(* stored under its term in the returned state: findEntry on the returned  *)
(* state's entries succeeds and gives the returned entry.  This covers     *)
(* addEntryMeanings with any list of meanings, the empty list included.    *)
(***************************************************************************)
C29_ReturnedEntryIsStored ==
  (/\ last.op \in {"addEntryMeanings", "addEntryExample",
                   "replaceEntryInAppState", "generateExamples",
                   "rememberEntry", "forgetEntry"}
   /\ Succeeded) =>
    /\ state = last.result.value.state
    /\ findEntry(last.result.value.state.entries, last.input.term)
         = succeed(last.result.value.entry)

\* addEntryMeanings with no meanings succeeded for a term that is not stored.
C29_Witness ==
  /\ Called("addEntryMeanings")
  /\ Succeeded
  /\ last.input.meanings = <<>>
  /\ ~HasTerm(state.entries, last.input.term)

(***************************************************************************)
(* C30: every entry command returns a state with the dictionary (name and  *)
(* language) of the state it was given.  A command addressed to a term t   *)
(* (addEntryExample, removeEntry with a meaning, replaceEntryInAppState,   *)
(* generateExamples, rememberEntry, forgetEntry) leaves every entry with   *)
(* another term as it was; rememberEntry and forgetEntry leave t's         *)
(* meanings and examples as they were, addEntryExample and                 *)
(* generateExamples leave t's meanings and score as they were.             *)
(***************************************************************************)
C30_CommandsKeepTheRest ==
  LET term == last.input.term
      before == EntryOf(last.pre.entries, term)
      after == EntryOf(state.entries, term)
  IN /\ (/\ last.op \in {"addEntryMeanings", "addEntryExample", "removeEntry",
                         "replaceEntryInAppState", "generateExamples",
                         "rememberEntry", "forgetEntry"}
         /\ Succeeded) =>
          /\ last.result.value.state.dictionary = last.pre.dictionary
          /\ last.result.value.dictionaryName = last.pre.dictionary.name
          /\ state.dictionary = last.pre.dictionary
     /\ \A t \in (IF Idle THEN Terms ELSE {}) :
          LET other == createState([name |-> "other",
                                    language |-> [source |-> "japanese",
                                                  target |-> "english"]],
                                   state.entries)
              results ==
                {addEntryMeanings(other, t, <<<<"m">>>>),
                 addEntryExample(other, t, <<"e">>),
                 removeEntry(other, t, Undefined),
                 removeEntry(other, t, Some(<<"m">>)),
                 replaceEntryInAppState(other, t, <<<<"n">>>>, Undefined),
                 generateExamples(other, t, <<"m">>, succeed(<<<<"e">>>>)),
                 rememberEntry(other, t),
                 forgetEntry(other, t)}
          IN \A result \in results :
               isSuccess(result) =>
                 /\ result.value.state.dictionary = other.dictionary
                 /\ result.value.dictionaryName = "other"
     /\ (/\ \/ last.op \in {"addEntryExample", "replaceEntryInAppState",
                            "generateExamples", "rememberEntry", "forgetEntry"}
            \/ Called("removeEntry") /\ last.input.meaning # Undefined
         /\ Succeeded) =>
          /\ Without(state.entries, term) = Without(last.pre.entries, term)
          /\ \A i \in 1..Len(last.pre.entries) :
               last.pre.entries[i].term # term =>
                 /\ i <= Len(state.entries) + 1
                 /\ \E j \in {i - 1, i} \cap (1..Len(state.entries)) :
                      state.entries[j] = last.pre.entries[i]
     /\ (last.op \in {"rememberEntry", "forgetEntry"} /\ Succeeded) =>
          /\ after.meanings = before.meanings
          /\ after.examples = before.examples
     /\ (last.op \in {"addEntryExample", "generateExamples"} /\ Succeeded) =>
          /\ after.meanings = before.meanings
          /\ after.score = before.score

\* A forgotten entry with an example kept it, next to another entry.
C30_Witness ==
  /\ Called("forgetEntry")
  /\ Succeeded
  /\ Len(last.pre.entries) = 2
  /\ EntryOf(last.pre.entries, last.input.term).examples # Undefined
  /\ EntryOf(state.entries, last.input.term).examples
       = EntryOf(last.pre.entries, last.input.term).examples
  /\ Without(state.entries, last.input.term) # <<>>

\* Some entry has an example that is not in usedExamples.
HasUnusedExample(entries, usedExamples) ==
  \E i \in 1..Len(entries) :
    UnusedExamples(StoredExamples(entries[i]), usedExamples) # <<>>

(***************************************************************************)
(* C26: selectExampleTestEntry always returns Success; its value is null   *)
(* exactly when no entry has an example that is not in usedExamples, and   *)
(* is a selection carrying an example whenever some entry has an unused    *)
(* example.  Stated for the draws of a [0,1) source.                       *)
(***************************************************************************)
C26_NullIffNoUnusedExample ==
  (/\ Called("selectExampleTestEntry")
   /\ last.input.entryRng.num < last.input.entryRng.den
   /\ last.input.exampleRng.num < last.input.exampleRng.den) =>
    /\ Succeeded
    /\ last.result.value = Undefined
         <=> ~HasUnusedExample(last.pre.entries, last.input.usedExamples)
    /\ HasUnusedExample(last.pre.entries, last.input.usedExamples) =>
         /\ last.result.value # Undefined
         /\ Occurs(StoredExamples(last.result.value[1].entry),
                   last.result.value[1].example)

\* The only unused example is the empty string, and the selection is null.
C26_Witness ==
  /\ Called("selectExampleTestEntry")
  /\ Succeeded
  /\ last.input.entryRng.num < last.input.entryRng.den
  /\ last.input.exampleRng.num < last.input.exampleRng.den
  /\ last.result.value = Undefined
  /\ HasUnusedExample(last.pre.entries, last.input.usedExamples)
  /\ \E i \in 1..Len(last.pre.entries) :
       StoredExamples(last.pre.entries[i]) = <<<<>>>>

\* Answers to the remember prompt that are neither y nor n.
OtherAnswers == {"yes", "Y", ""}

IsDestructive(args) ==
  /\ args # <<>>
  /\ \/ args[1] \in {word.remove, word.replace}
     \/ args[1] = word.dictionary /\ Len(args) >= 2 /\ args[2] = word.clear

\* The values the command line gives for -d/--dictionary: the argument
\* after the option, or the text after "=" in the option itself.
DictionaryValues(args) ==
  {args[i + 1] : i \in {k \in 1..(Len(args) - 1) :
                          args[k] \in {option.d, option.dictionary}}}
  \cup {SubSeq(args[i], Len(option.d) + 2, Len(args[i])) :
          i \in {k \in 1..Len(args) : startsWith(args[k], option.d \o <<"=">>)}}
  \cup {SubSeq(args[i], Len(option.dictionary) + 2, Len(args[i])) :
          i \in {k \in 1..Len(args) :
                   startsWith(args[k], option.dictionary \o <<"=">>)}}

AsksForHelp(args) ==
  \E i \in 1..Len(args) : args[i] \in {option.h, option.help}

DestructiveHandlers == {"handleRemove", "handleReplace", "handleDictionaryClear"}

(***************************************************************************)
(* C23: parseCliCommand rejects remove, replace and dictionary clear with  *)
(* invalid-input whenever the arguments give no non-empty value for        *)
(* -d/--dictionary (a command line that asks for help parses to help), so  *)
(* handleRemove, handleReplace and handleDictionaryClear are only ever     *)
(* given a command that names a dictionary, one the command line gave.     *)
(***************************************************************************)
C23_DestructiveNeedsDictionary ==
  /\ Called("parseCliCommand") =>
       LET args == last.input.args
       IN /\ (/\ IsDestructive(args)
              /\ ~AsksForHelp(args)
              /\ DictionaryValues(args) \subseteq {<<>>}) =>
               last.result = failInvalidInput
          /\ (/\ isSuccess(last.result)
              /\ last.result.value.kind
                   \in {"remove", "replace", "dictionary.clear"}) =>
               /\ IsDestructive(args)
               /\ last.result.value.dictionary # <<>>
               /\ last.result.value.dictionary \in DictionaryValues(args)
  /\ (Called("handleCommand") /\ last.handler \in DestructiveHandlers) =>
       /\ IsDestructive(last.input.args)
       /\ last.command.dictionary # <<>>
       /\ last.command.dictionary \in DictionaryValues(last.input.args)

\* "remove a -d w" reached handleRemove with the dictionary w.
C23_Witness ==
  /\ Called("handleCommand")
  /\ last.handler = "handleRemove"
  /\ last.input.args = <<word.remove, <<"a">>, option.d, <<"w">>>>
  /\ last.command.dictionary = <<"w">>
  /\ last.command.term = <<"a">>

MutatingHandlers ==
  {"add", "remove", "replace", "examples.add", "examples.generate",
   "dictionary.clear", "test"}

\* The file of the dictionary of data holds data.
PersistedAs(ws, data) ==
  ws.files[data.dictionary.name] =
    Some([language |-> data.dictionary.language, entries |-> data.entries])

\* C21: a mutating handler (add, remove, replace, examples add, examples
\* generate, dictionary clear, test) calls storage.save at most once, and
\* only with the state of its core command's Success; when the load, the
\* parsing of an input, the core command, the generator or the test session
\* fails, the handler returns that Failure, has saved nothing, and the
\* dictionary files are as they were.
C21_SaveOnceAfterSuccess ==
  (~Idle /\ last.op \in MutatingHandlers) =>
    LET run == last.run
        failed == run.core = Undefined \/ isFailure(run.core[1])
    IN /\ Len(run.saves) <= 1
       /\ run.saves # <<>> =>
            /\ ~failed
            /\ run.saves[1] = storageSave(run.core[1].value.state)
            /\ isSuccess(run.result) => PersistedAs(workspace, run.saves[1])
       /\ failed =>
            /\ isFailure(run.result)
            /\ run.core # Undefined => run.result = run.core[1]
            /\ run.saves = <<>>
            /\ workspace = last.pre
       /\ ~failed => Len(run.saves) = 1
       /\ workspace.current = last.pre.current

\* The generator fails on a dictionary that holds an entry: the Failure is
\* returned and nothing is saved.
C21_Witness ==
  /\ ~Idle
  /\ last.op = "examples.generate"
  /\ last.result = failAi
  /\ last.run.saves = <<>>
  /\ \E name \in DictionaryNames :
       /\ last.pre.files[name] # Undefined
       /\ last.pre.files[name][1].entries # <<>>

EntryLevelHandlers ==
  {"add", "examples.add", "remove", "replace", "examples.generate", "test"}

\* C22: handleDictionaryNew under a name that has a dictionary file returns
\* conflict without saving, so that the file keeps its language and its
\* entries; no entry-level command (add, example add, remove, replace,
\* generate, remember, forget) returns conflict, whatever its inputs.
C22_ConflictOnlyOnExistingName ==
  /\ (~Idle /\ last.op = "dictionary.new") =>
       LET parsedName == parseDictionaryName(last.input.name)
       IN (isSuccess(parsedName) /\ dictionaryExists(last.pre, parsedName.value))
            => /\ last.result = failConflict
               /\ last.run.saves = <<>>
               /\ workspace.files = last.pre.files
  /\ (~Idle /\ last.op \in EntryLevelHandlers) =>
       /\ last.result # failConflict
       /\ last.run.core # Undefined => last.run.core[1] # failConflict
  /\ \A name \in (IF Idle THEN listDictionaryNames(workspace) ELSE {}) :
       LET loaded == workspaceLoad(workspace, name)
       IN /\ isSuccess(loaded)
          /\ \A term \in RawTerms :
               LET st == createState(loaded.value.dictionary,
                                     loaded.value.entries)
               IN /\ appRememberEntry(st, term) # failConflict
                  /\ appForgetEntry(st, term) # failConflict
                  /\ appAddEntryExample(st, term, <<"e">>) # failConflict
                  /\ appRemoveEntry(st, term, Undefined) # failConflict

\* A dictionary with an entry is registered again, under its name written
\* with a space before it and with another source language.
C22_Witness ==
  /\ ~Idle
  /\ last.op = "dictionary.new"
  /\ last.result = failConflict
  /\ last.input.name = <<" ", "x">>
  /\ last.pre.files[<<"x">>] # Undefined
  /\ last.pre.files[<<"x">>][1].entries # <<>>
  /\ last.pre.files[<<"x">>][1].language.source # last.input.source
  /\ workspace = last.pre

====
